---- MODULE Spec2Model ----
(***************************************************************************)
(* Event persister of bucketeer (pkg/eventpersister/persister).            *)
(*                                                                         *)
(* The model follows persister.go: Run starts the rate-limited puller and  *)
(* numWorkers goroutines running batch(); each batch() iteration is one    *)
(* action (receive, timer, ctx.Done, closed channel) and a flush (send,    *)
(* extractEvents, marshalEvent, getEvaluations, the ack loop) is part of   *)
(* the iteration that triggers it.  Ack/Nack calls and handledCounter      *)
(* increments are logged per message in `settled`; `last` describes the    *)
(* step just taken (and the send call it made, if any).                    *)
(***************************************************************************)
EXTENDS Integers, Sequences, FiniteSets, TLC

\* ----------------------------------------------------------------- bounds
NumWorkers == 1
FlushSize == 2

\* one message more than fills a batch
MaxMsgs == FlushSize + 1
Workers == 1..NumWorkers
Mids == 1..MaxMsgs

Nil == "nil"
EmptyId == ""
IdNames == <<"a", "b", "c", "d", "e", "f">>
Ids == {IdNames[i] : i \in 1..FlushSize}
Envs == {"e1", "e2"}

\* ------------------------------------------------------ small map helpers
EmptyMap == <<>>

Put(f, k, v) == (k :> v) @@ f

RECURSIVE SetToSeq(_)
SetToSeq(S) ==
    IF S = {} THEN <<>>
    ELSE LET x == CHOOSE y \in S : TRUE IN <<x>> \o SetToSeq(S \ {x})

Range(s) == {s[i] : i \in DOMAIN s}

Orders(S) == {s \in [1..Cardinality(S) -> S] : Range(s) = S}

\* ------------------------------------------------------------ proto types
OK == "OK"
RepeatableError == "RepeatableError"
NonRepeatableError == "NonRepeatableError"
BadMessage == "BadMessage"
MissingID == "MissingID"
DuplicateID == "DuplicateID"

GOAL_BATCH == "GOAL_BATCH"
ANDROID == "ANDROID"

Evaluation(variationId, reason) ==
    [featureId |-> "f1", featureVersion |-> 1,
     variationId |-> variationId, reason |-> reason]

StoredEvaluations == <<Evaluation("vStored", "RULE")>>
EvaluatedEvaluations == <<Evaluation("vEvaluated", "DEFAULT")>>
ClientEvaluations == <<Evaluation("vClient", Nil)>>

EvaluationEvent == [kind |-> "EvaluationEvent", sourceId |-> ANDROID,
                    tag |-> "t", evaluations |-> <<>>]
UserEvent == [kind |-> "UserEvent", sourceId |-> ANDROID,
              tag |-> "t", evaluations |-> <<>>]
MetricsEvent == [kind |-> "MetricsEvent", sourceId |-> ANDROID,
                 tag |-> "t", evaluations |-> <<>>]
GoalBatchEvent == [kind |-> "GoalBatchEvent", sourceId |-> GOAL_BATCH,
                   tag |-> "t", evaluations |-> <<>>]
GoalEvent(sourceId, tag, evaluations) ==
    [kind |-> "GoalEvent", sourceId |-> sourceId,
     tag |-> tag, evaluations |-> evaluations]

\* Every sourceId/tag case of getEvaluations, each with evaluations sent by
\* the client, and a legacy event without any.
GoalEvents ==
    {GoalEvent(s, t, ClientEvaluations) : s \in {GOAL_BATCH, ANDROID}, t \in {"", "t"}}
      \cup {GoalEvent(ANDROID, "", <<>>)}

\* m.Data: the serialized eventproto.Event, or bytes that do not decode.
Data(decode, env, id, event) ==
    [decode |-> decode, environmentNamespace |-> env, id |-> id, event |-> event]

NoEvent == [kind |-> "none", sourceId |-> "", tag |-> "", evaluations |-> <<>>]
\* proto.Unmarshal fails / ptypes.UnmarshalAny fails
BadOuter == Data("outerErr", "", "", NoEvent)
BadInner(env, id) == Data("innerErr", env, id, NoEvent)

\* puller.Message
Message(mid, attrId, data) == [mid |-> mid, id |-> attrId, data |-> data]


\* --------------------------------------------------- external collaborators
\* Outcomes of the calls a flush makes for one message of the batch:
\*   stor/rpc   GetUserEvaluations / EvaluateFeatures under marshalGoalEvent
\*   stor2/rpc2 the same calls under createGoalEvent (row-store path)
\*   row        the row-store insert
\*   ds         the datastore's verdict on the record ("ok": not in the
\*              returned failure map, "rep"/"nonrep": in it with that flag)
ErrKeyNotFound == "ErrKeyNotFound"
ErrInternal == "ErrInternal"
ErrUnexpectedMessageType == "ErrUnexpectedMessageType"

Oracle(stor, rpc, stor2, rpc2, row, ds) ==
    [stor |-> stor, rpc |-> rpc, stor2 |-> stor2, rpc2 |-> rpc2,
     row |-> row, ds |-> ds]

StorOutcomes == {"ok", ErrKeyNotFound, ErrInternal}
RpcOutcomes == {"ok", ErrInternal}

\* Only the outcomes of calls the flush can make for this message vary.
ReadsStorage(e) == e.kind = "GoalEvent" /\ (e.sourceId = GOAL_BATCH \/ e.tag # "")
CallsRpc(e, stor) == e.kind = "GoalEvent" /\ e.sourceId = GOAL_BATCH /\ stor = ErrKeyNotFound
Marshals(e, stor, rpc) ==
    /\ e.kind \in {"EvaluationEvent", "GoalEvent", "UserEvent"}
    /\ e.kind = "GoalEvent" =>
         IF e.sourceId = GOAL_BATCH
         THEN stor = "ok" \/ (stor = ErrKeyNotFound /\ rpc = "ok")
         ELSE e.tag = "" \/ stor \in {"ok", ErrKeyNotFound}

OraclesFor(m, postgresClient) ==
    IF m.data.decode # "ok" THEN {Oracle("ok", "ok", "ok", "ok", "ok", "ok")}
    ELSE LET e == m.data.event IN
      {o \in [stor : StorOutcomes, rpc : RpcOutcomes, stor2 : StorOutcomes,
              rpc2 : RpcOutcomes, row : {"ok", ErrInternal},
              ds : {"ok", "rep", "nonrep"}] :
         /\ ~ReadsStorage(e) => o.stor = "ok"
         /\ ~CallsRpc(e, o.stor) => o.rpc = "ok"
         /\ ~(postgresClient /\ ReadsStorage(e)) => o.stor2 = "ok"
         /\ ~(postgresClient /\ CallsRpc(e, o.stor2)) => o.rpc2 = "ok"
         /\ ~(postgresClient /\ Marshals(e, o.stor2, o.rpc2)) => o.row = "ok"
         /\ ~Marshals(e, o.stor, o.rpc) => o.ds = "ok"}

\* ------------------------------------------------------------ enrichment
\* Persister.getCurrentUserEvaluations
getCurrentUserEvaluations(stor) ==
    IF stor # "ok" THEN [ue |-> <<>>, err |-> stor]
    ELSE [ue |-> StoredEvaluations, err |-> Nil]

EvalResult(ue, repeatable, err, reads, rpcs) ==
    [ue |-> ue, repeatable |-> repeatable, err |-> err, reads |-> reads, rpcs |-> rpcs]

\* A lookup error other than KeyNotFound is not retried.
goalBatchEvaluationsNoRetry(e, stor, rpc) ==
    LET r == getCurrentUserEvaluations(stor) IN
    IF r.err # Nil
    THEN IF r.err = ErrKeyNotFound /\ rpc = "ok"
         THEN EvalResult(EvaluatedEvaluations, FALSE, Nil, 1, 1)
         ELSE EvalResult(<<>>, FALSE, r.err, 1, IF r.err = ErrKeyNotFound THEN 1 ELSE 0)
    ELSE EvalResult(r.ue, FALSE, Nil, 1, 0)

\* Persister.getEvaluations, the branch for sourceId GOAL_BATCH (lines 420-443)
goalBatchEvaluations(e, stor, rpc) ==
    LET r == getCurrentUserEvaluations(stor) IN
    IF r.err # Nil
    THEN IF r.err = ErrKeyNotFound
         THEN IF rpc # "ok"
              THEN EvalResult(<<>>, FALSE, rpc, 1, 1)
              ELSE EvalResult(EvaluatedEvaluations, FALSE, Nil, 1, 1)
         ELSE EvalResult(<<>>, TRUE, r.err, 1, 0)
    ELSE EvalResult(r.ue, FALSE, Nil, 1, 0)

\* KeyNotFound is treated like any other lookup error.
sdkEvaluationsStrict(e, stor) ==
    IF e.tag = ""
    THEN EvalResult(e.evaluations, FALSE, Nil, 0, 0)
    ELSE LET r == getCurrentUserEvaluations(stor) IN
         IF r.err # Nil
         THEN EvalResult(<<>>, TRUE, r.err, 1, 0)
         ELSE EvalResult(r.ue, FALSE, Nil, 1, 0)

\* Persister.getEvaluations, the branches for the other sourceIds (lines 444-463)
sdkEvaluations(e, stor) ==
    IF e.tag = ""
    THEN EvalResult(e.evaluations, FALSE, Nil, 0, 0)
    ELSE LET r == getCurrentUserEvaluations(stor) IN
         IF r.err # Nil /\ r.err # ErrKeyNotFound
         THEN EvalResult(<<>>, TRUE, r.err, 1, 0)
         ELSE EvalResult(r.ue, FALSE, Nil, 1, 0)

\* Persister.getEvaluations
getEvaluations(e, stor, rpc) ==
    IF e.sourceId = GOAL_BATCH
    THEN goalBatchEvaluations(e, stor, rpc)
    ELSE sdkEvaluations(e, stor)

\* fmt.Sprintf("%s:%d:%s:%s", ...) over the evaluations; a nil reason prints "".
FormatEvaluations(ue) ==
    [i \in DOMAIN ue |->
        <<ue[i].featureId, ue[i].featureVersion, ue[i].variationId,
          IF ue[i].reason = Nil THEN "" ELSE ue[i].reason>>]

MarshalResult(json, repeatable, err, reads, rpcs) ==
    [json |-> json, repeatable |-> repeatable, err |-> err,
     reads |-> reads, rpcs |-> rpcs]

Record(kind, env, evaluations) ==
    [kind |-> kind, environmentNamespace |-> env, evaluations |-> evaluations]

\* the "" returned next to an error
NoJSON == Record("", "", <<>>)

\* Persister.marshalGoalEvent
marshalGoalEvent(e, env, stor, rpc) ==
    LET r == getEvaluations(e, stor, rpc) IN
    IF r.err # Nil
    THEN MarshalResult(NoJSON, r.repeatable, r.err, r.reads, r.rpcs)
    ELSE MarshalResult(Record("goal", env, FormatEvaluations(r.ue)),
                       FALSE, Nil, r.reads, r.rpcs)

\* An event of another type is a failure the bus may redeliver.
marshalEventRetry(e, env, stor, rpc) ==
    CASE e.kind = "EvaluationEvent" ->
           MarshalResult(Record("evaluation", env, <<>>), FALSE, Nil, 0, 0)
      [] e.kind = "GoalEvent" -> marshalGoalEvent(e, env, stor, rpc)
      [] e.kind = "UserEvent" ->
           MarshalResult(Record("user", env, <<>>), FALSE, Nil, 0, 0)
      [] OTHER -> MarshalResult(NoJSON, TRUE, ErrUnexpectedMessageType, 0, 0)

\* Persister.marshalEvent
marshalEvent(e, env, stor, rpc) ==
    CASE e.kind = "EvaluationEvent" ->
           MarshalResult(Record("evaluation", env, <<>>), FALSE, Nil, 0, 0)
      [] e.kind = "GoalEvent" -> marshalGoalEvent(e, env, stor, rpc)
      [] e.kind = "UserEvent" ->
           MarshalResult(Record("user", env, <<>>), FALSE, Nil, 0, 0)
      [] OTHER -> MarshalResult(NoJSON, FALSE, ErrUnexpectedMessageType, 0, 0)

RowResult(err, reads, rpcs) == [err |-> err, reads |-> reads, rpcs |-> rpcs]

\* Persister.createGoalEvent
createGoalEvent(e, stor2, rpc2, row) ==
    LET r == getEvaluations(e, stor2, rpc2) IN
    IF r.err # Nil THEN RowResult(r.err, r.reads, r.rpcs)
    ELSE RowResult(IF row = "ok" THEN Nil ELSE row, r.reads, r.rpcs)

\* Persister.createEvent
createEvent(e, stor2, rpc2, row) ==
    CASE e.kind = "GoalEvent" -> createGoalEvent(e, stor2, rpc2, row)
      [] e.kind \in {"EvaluationEvent", "UserEvent"} ->
           RowResult(IF row = "ok" THEN Nil ELSE row, 0, 0)
      [] OTHER -> RowResult(ErrUnexpectedMessageType, 0, 0)


\* ------------------------------------------------------------------ flush
\* Persister.extractEvents: `order` is the iteration order of the Go map.
\* Each extracted event remembers the message it was decoded from (`from`:
\* its batch key, `mid`: the message) so that claims can follow it.
RECURSIVE extractEventsLoop(_, _, _)
extractEventsLoop(messages, order, acc) ==
    IF order = <<>> THEN acc
    ELSE LET m == messages[Head(order)]
             d == m.data
             entry == [event |-> d.event, from |-> m.id, mid |-> m.mid]
         IN IF d.decode # "ok"
            THEN extractEventsLoop(messages, Tail(order),
                     [acc EXCEPT !.bad = @ \cup {m.id}])
            ELSE IF d.environmentNamespace \in DOMAIN acc.envEvents
            THEN extractEventsLoop(messages, Tail(order),
                     [acc EXCEPT !.envEvents[d.environmentNamespace] =
                                    Put(@, d.id, entry)])
            ELSE extractEventsLoop(messages, Tail(order),
                     [acc EXCEPT !.envEvents =
                         Put(@, d.environmentNamespace, Put(EmptyMap, d.id, entry))])

extractEvents(messages, order) ==
    extractEventsLoop(messages, order, [envEvents |-> EmptyMap, bad |-> {}])

\* No event is marked as failed: every event goes to datastore.Write.
FailedEventNever(marshalErr, row) == FALSE

\* A failed row-store insert marks the event as failed too.
FailedEventWithRow(marshalErr, row) == marshalErr # Nil \/ row # "ok"

\* send, lines 242-264: only an error of marshalEvent puts the id into
\* `fails`; an error of createEvent is logged and nothing else, whatever
\* the outcome `row` of the insert.
FailedEvent(marshalErr, row) == marshalErr # Nil

\* The per-environment body of the loop of Persister.send (lines 239-280):
\* row-store insert, marshalling, one datastore.Write, merge of its failures.
SendEnv(events, env, oracle, postgresClient, werr, acc) ==
    LET m(id) == marshalEvent(events[id].event, env,
                              oracle[events[id].from].stor, oracle[events[id].from].rpc)
        c(id) == createEvent(events[id].event, oracle[events[id].from].stor2,
                             oracle[events[id].from].rpc2, oracle[events[id].from].row)
        failed == {id \in DOMAIN events :
                     FailedEvent(m(id).err, IF postgresClient
                                            THEN oracle[events[id].from].row
                                            ELSE "ok")}
        evs == [id \in DOMAIN events \ failed |-> m(id).json]
        fs == {id \in DOMAIN evs : oracle[events[id].from].ds # "ok"}
        fails1 == [id \in failed |-> m(id).repeatable] @@ acc.fails
        fails2 == [id \in fs |-> oracle[events[id].from].ds = "rep"] @@ fails1
    IN [fails |-> IF DOMAIN evs # {} THEN fails2 ELSE fails1,
        writes |-> IF DOMAIN evs # {}
                   THEN acc.writes \cup
                        {[environmentNamespace |-> env, evs |-> evs, err |-> werr,
                          mids |-> {events[id].mid : id \in DOMAIN evs}]}
                   ELSE acc.writes,
        rows |-> IF postgresClient
                 THEN acc.rows \cup
                      {[environmentNamespace |-> env, id |-> id, mid |-> events[id].mid,
                        err |-> c(id).err] : id \in DOMAIN events}
                 ELSE acc.rows,
        calls |-> acc.calls \cup
                  {[mid |-> events[id].mid, from |-> events[id].from, id |-> id,
                    environmentNamespace |-> env,
                    event |-> events[id].event, oracle |-> oracle[events[id].from],
                    marshal |-> m(id),
                    row |-> IF postgresClient THEN c(id) ELSE RowResult(Nil, 0, 0)] :
                   id \in DOMAIN events}]

RECURSIVE SendEnvs(_, _, _, _, _, _)
SendEnvs(envEvents, envOrder, oracle, postgresClient, werr, acc) ==
    IF envOrder = <<>> THEN acc
    ELSE SendEnvs(envEvents, Tail(envOrder), oracle, postgresClient, werr,
                  SendEnv(envEvents[Head(envOrder)], Head(envOrder), oracle,
                          postgresClient, werr[Head(envOrder)], acc))

\* The ack loop of Persister.send (lines 281-294): what happens to the
\* message stored under batch key `id`.
AckPolicy(fails, id) ==
    IF id \in DOMAIN fails
    THEN IF fails[id] THEN <<"Nack", RepeatableError>>
                      ELSE <<"Ack", NonRepeatableError>>
    ELSE <<"Ack", OK>>

\* handleBadMessage in Persister.extractEvents
handleBadMessage == <<"Ack", BadMessage>>

\* Persister.send.  The result lists, per batch key, the Ack/Nack calls and
\* counter increments the call makes for that message, in order.
send(messages, order, envOrder, oracle, postgresClient, werr) ==
    LET ex == extractEvents(messages, order)
        body == SendEnvs(ex.envEvents, envOrder, oracle, postgresClient, werr,
                         [fails |-> EmptyMap, writes |-> {}, rows |-> {}, calls |-> {}])
        early == DOMAIN ex.envEvents = {}
        badLog(id) == IF id \in ex.bad THEN <<handleBadMessage>> ELSE <<>>
    IN [messages |-> messages,
        in |-> <<order, envOrder, oracle, werr>>,
        envEvents |-> ex.envEvents,
        bad |-> ex.bad,
        early |-> early,
        fails |-> IF early THEN EmptyMap ELSE body.fails,
        writes |-> IF early THEN {} ELSE body.writes,
        rows |-> IF early THEN {} ELSE body.rows,
        calls |-> IF early THEN {} ELSE body.calls,
        log |-> [id \in DOMAIN messages |->
                   IF early THEN badLog(id)
                   ELSE badLog(id) \o <<AckPolicy(body.fails, id)>>]]


\* ================================================================ gateway
\* The SDK gateway (grpcGatewayService).  A call is one action: admission,
\* validation, the cache and origin calls it makes and the response.  The
\* two caches are state; `call` describes the call just made, with the
\* downstream calls in order (`trace`).

\* ------------------------------------------------------------- error kinds
ErrContextCanceled == "ErrContextCanceled"
ErrMissingAPIKey == "ErrMissingAPIKey"
ErrInvalidAPIKey == "ErrInvalidAPIKey"
ErrBadRole == "ErrBadRole"
ErrDisabledAPIKey == "ErrDisabledAPIKey"
ErrTagRequired == "ErrTagRequired"
ErrUserRequired == "ErrUserRequired"
ErrUserIDRequired == "ErrUserIDRequired"
ErrFeatureIDRequired == "ErrFeatureIDRequired"
ErrFeatureNotFound == "ErrFeatureNotFound"
ErrMissingEvents == "ErrMissingEvents"
ErrMissingEventID == "ErrMissingEventID"

\* ------------------------------------------------------------------ types
APIKey_SDK == "SDK"
APIKey_SERVICE == "SERVICE"

\* accountproto.EnvironmentAPIKey
EnvironmentAPIKey(role, disabled, environmentDisabled) ==
    [environmentNamespace |-> "ns0",
     apiKey |-> [id |-> "id-0", role |-> role, disabled |-> disabled],
     environmentDisabled |-> environmentDisabled]

EnvironmentAPIKeys ==
    {EnvironmentAPIKey(r, d, e) :
        r \in {APIKey_SDK, APIKey_SERVICE}, d \in BOOLEAN, e \in BOOLEAN}

NoEnvironmentAPIKey == EnvironmentAPIKey("", FALSE, FALSE)

\* The incoming context: cancelled or not, and its metadata.  `md` tells
\* whether the context carries metadata at all, `has` whether the metadata
\* has an "authorization" entry, `authorization` the entry's values.
Context(canceled, md, has, authorization) ==
    [canceled |-> canceled, md |-> md, has |-> has, authorization |-> authorization]

KeyIds == {"test-key"}

Authorizations ==
    {<<FALSE, FALSE, <<>> >>,        \* no metadata
     <<TRUE, FALSE, <<>> >>,         \* metadata.MD{}
     <<TRUE, TRUE, <<>> >>,          \* "authorization": []string{}
     <<TRUE, TRUE, <<"">> >>}        \* "authorization": []string{""}
      \cup {<<TRUE, TRUE, <<k>> >> : k \in KeyIds}

Contexts == {Context(c, a[1], a[2], a[3]) : c \in BOOLEAN, a \in Authorizations}

\* A cache entry; `hit` FALSE is cache.ErrNotFound.
Entry(hit, value) == [hit |-> hit, value |-> value]

\* What one call of a gateway function returns besides its result: the
\* downstream calls it made, in order.
Called(name, arg) == <<name, arg>>
Calls(trace, name) == {i \in DOMAIN trace : trace[i][1] = name}

\* ---------------------------------------------------------------- admission
\* extractAPIKeyID
extractAPIKeyID(ctx) ==
    IF ~ctx.md THEN [key |-> "", err |-> ErrMissingAPIKey]
    ELSE IF Len(ctx.authorization) = 0 \/ ctx.authorization[1] = ""
    THEN [key |-> "", err |-> ErrMissingAPIKey]
    ELSE [key |-> ctx.authorization[1], err |-> Nil]

\* Outcomes of the account service: GetAPIKeyBySearchingAllEnvironments
\* answers with a key, with NotFound or with another status.
AccountOutcomes ==
    {[code |-> "OK", key |-> k] : k \in EnvironmentAPIKeys}
      \cup {[code |-> c, key |-> NoEnvironmentAPIKey] : c \in {"NotFound", "Unknown"}}

\* The key fetched from the origin is not stored.
getEnvironmentAPIKeyNoPut(ctx, cache, origin) ==
    LET id == extractAPIKeyID(ctx) IN
    IF id.err # Nil
    THEN [key |-> NoEnvironmentAPIKey, err |-> id.err, trace |-> <<>>, cache |-> cache]
    ELSE LET get == <<Called("environmentAPIKeyCache.Get", id.key)>>
             rpc == <<Called("accountClient.GetAPIKeyBySearchingAllEnvironments", id.key)>>
         IN IF cache[id.key].hit
            THEN [key |-> cache[id.key].value, err |-> Nil, trace |-> get, cache |-> cache]
            ELSE IF origin.code = "NotFound"
            THEN [key |-> NoEnvironmentAPIKey, err |-> ErrInvalidAPIKey,
                  trace |-> get \o rpc, cache |-> cache]
            ELSE IF origin.code # "OK"
            THEN [key |-> NoEnvironmentAPIKey, err |-> ErrInternal,
                  trace |-> get \o rpc, cache |-> cache]
            ELSE [key |-> origin.key, err |-> Nil, trace |-> get \o rpc, cache |-> cache]

\* getEnvironmentAPIKey: the cache first, then the account service, whose
\* answer is put into the cache.
getEnvironmentAPIKey(ctx, cache, origin) ==
    LET id == extractAPIKeyID(ctx) IN
    IF id.err # Nil
    THEN [key |-> NoEnvironmentAPIKey, err |-> id.err, trace |-> <<>>, cache |-> cache]
    ELSE LET get == <<Called("environmentAPIKeyCache.Get", id.key)>>
             rpc == <<Called("accountClient.GetAPIKeyBySearchingAllEnvironments", id.key)>>
         IN IF cache[id.key].hit
            THEN [key |-> cache[id.key].value, err |-> Nil, trace |-> get, cache |-> cache]
            ELSE IF origin.code = "NotFound"
            THEN [key |-> NoEnvironmentAPIKey, err |-> ErrInvalidAPIKey,
                  trace |-> get \o rpc, cache |-> cache]
            ELSE IF origin.code # "OK"
            THEN [key |-> NoEnvironmentAPIKey, err |-> ErrInternal,
                  trace |-> get \o rpc, cache |-> cache]
            ELSE [key |-> origin.key, err |-> Nil,
                  trace |-> get \o rpc
                            \o <<Called("environmentAPIKeyCache.Put", origin.key)>>,
                  cache |-> [cache EXCEPT ![id.key] = Entry(TRUE, origin.key)]]

\* The flags are looked at before the role.
checkEnvironmentAPIKeyFlagsFirst(environmentAPIKey, role) ==
    IF environmentAPIKey.environmentDisabled \/ environmentAPIKey.apiKey.disabled
    THEN ErrDisabledAPIKey
    ELSE IF environmentAPIKey.apiKey.role # role THEN ErrBadRole
    ELSE Nil

\* checkEnvironmentAPIKey
checkEnvironmentAPIKey(environmentAPIKey, role) ==
    IF environmentAPIKey.apiKey.role # role THEN ErrBadRole
    ELSE IF environmentAPIKey.environmentDisabled THEN ErrDisabledAPIKey
    ELSE IF environmentAPIKey.apiKey.disabled THEN ErrDisabledAPIKey
    ELSE Nil

\* The API key is resolved before the cancellation is looked at.
checkRequestKeyFirst(ctx, cache, origin) ==
    LET k == getEnvironmentAPIKey(ctx, cache, origin) IN
    IF k.err # Nil THEN k
    ELSE IF ctx.canceled
    THEN [key |-> NoEnvironmentAPIKey, err |-> ErrContextCanceled,
          trace |-> k.trace, cache |-> k.cache]
    ELSE [k EXCEPT !.err = checkEnvironmentAPIKey(k.key, APIKey_SDK)]

\* The admission of GetEvaluations and RegisterEvents: cancellation, then
\* the API key, then its role (SDK) and flags.
checkRequest(ctx, cache, origin) ==
    IF ctx.canceled
    THEN [key |-> NoEnvironmentAPIKey, err |-> ErrContextCanceled,
          trace |-> <<>>, cache |-> cache]
    ELSE LET k == getEnvironmentAPIKey(ctx, cache, origin) IN
         IF k.err # Nil THEN k
         ELSE [k EXCEPT !.err = checkEnvironmentAPIKey(k.key, APIKey_SDK)]

\* ------------------------------------------------------------- evaluations
\* featureproto.Feature, as far as the gateway looks at it
\* featureproto.Clause: SEGMENT names segments in `values`, EQUALS compares
\* the attribute of the user's data with `values`.
Clause(operator, attribute, values) ==
    [operator |-> operator, attribute |-> attribute, values |-> values]

\* featureproto.Rule with a FIXED strategy
Rule(id, clauses, variation) == [id |-> id, clauses |-> clauses, variation |-> variation]

\* featureproto.Feature; the default strategy is FIXED
RuleFeature(id, version, tags, enabled, rules, defaultVariation, offVariation) ==
    [id |-> id, version |-> version, tags |-> tags, enabled |-> enabled,
     rules |-> rules, defaultVariation |-> defaultVariation,
     offVariation |-> offVariation]

\* an enabled feature without rules
Feature(id, version, tags) ==
    RuleFeature(id, version, tags, TRUE, <<>>, "variation-b", "variation-a")

FeatureA == Feature("feature-a", 1, {"android"})
FeatureC == Feature("feature-c", 1, {"ios"})

\* version 2 of feature-c: rule-1 gives variation-b to the users of the
\* segment, everyone else gets variation-a; the feature is not enabled and
\* has no off-variation, as at lines 1224-1267
SegmentRule == Rule("rule-1", <<Clause("SEGMENT", "", {"segment-id"})>>, "variation-b")
FeatureC2 == RuleFeature("feature-c", 2, {"ios"}, FALSE, <<SegmentRule>>, "variation-a", "")

\* a feature with a FIXED default strategy only, not enabled and without
\* off-variation, as at lines 1015-1094
FixedFeature(id, tags, variation) == RuleFeature(id, 1, tags, FALSE, <<>>, variation, "")

\* the features of lines 1015-1094
NoSegmentList ==
    <<FixedFeature("feature-a", {"android"}, "vID1"),
      FixedFeature("feature-b", {"android"}, "vID2"),
      FixedFeature("feature-c", {"ios"}, "vID3"),
      FixedFeature("feature-d", {"ios"}, "vID4")>>

\* rule-0 needs the attribute and the segment, rule-1 the segment only
AttributeRule ==
    Rule("rule-0", <<Clause("EQUALS", "a", {"value-a"}),
                     Clause("SEGMENT", "", {"segment-id"})>>, "variation-c")
TwoRules ==
    RuleFeature("feature-r", 1, {"ios"}, TRUE, <<AttributeRule, SegmentRule>>,
                "variation-a", "variation-off")
Untagged == FixedFeature("feature-u", {}, "vID5")
OffFeature ==
    RuleFeature("feature-off", 1, {"ios"}, FALSE, <<SegmentRule>>,
                "variation-a", "variation-off")

\* the features of lines 1551-1609: both carry the request's tag
Feature1 == FixedFeature("feature-id-1", {"test"}, "variation-b")
Feature2 ==
    RuleFeature("feature-id-2", 1, {"test"}, FALSE, <<SegmentRule>>, "variation-a", "")

\* The feature lists an environment may have.
FeatureSets ==
    {<<>>, <<FeatureA>>, <<FeatureC>>, <<FeatureA, FeatureC>>, <<FeatureA, FeatureC2>>}

Tags == {"", "android", "ios"}

\* userproto.User; `nil` is a request without user
User(nil, id, data) == [nil |-> nil, id |-> id, data |-> data]
Users ==
    {User(TRUE, "", {}), User(FALSE, "", {}), User(FALSE, "user-id-0", {}),
     User(FALSE, "user-id-0", {<<"a", "value-a">>})}

\* featuredomain.UserEvaluationsID: a hash over the user id, the sorted user
\* data and the features' (id, version) pairs sorted by id; the order of the
\* inputs is lost, everything else is kept.
UserEvaluationsID(userID, userMetadata, features) ==
    [userId |-> userID, data |-> userMetadata,
     features |-> {<<features[i].id, features[i].version>> : i \in DOMAIN features}]

\* the empty string
NoUserEvaluationsID == UserEvaluationsID("", {}, <<>>)

\* GetEvaluations: the id is computed over the features of the environment
\* as loaded, whatever their tags (the request's tag is "test", the features
\* are tagged android, ios and web, and the id is that of all of them).
currentUserEvaluationsID(user, features, tag) ==
    UserEvaluationsID(user.id, user.data, features)

GetEvaluationsRequest(tag, user, userEvaluationsId) ==
    [tag |-> tag, user |-> user, userEvaluationsId |-> userEvaluationsId]

\* The ids a client may send: none, or one it got for some feature list.
UserEvaluationsIDsOf(u) ==
    {NoUserEvaluationsID}
      \cup (IF u.nil \/ u.id = "" THEN {}
            ELSE {UserEvaluationsID(u.id, u.data, fs) : fs \in FeatureSets})

GetEvaluationsRequests ==
    UNION {{GetEvaluationsRequest(t, u, id) : t \in Tags, id \in UserEvaluationsIDsOf(u)} :
              u \in Users}

\* validateGetEvaluationsRequest
validateGetEvaluationsRequest(req) ==
    IF req.tag = "" THEN ErrTagRequired
    ELSE IF req.user.nil THEN ErrUserRequired
    ELSE IF req.user.id = "" THEN ErrUserIDRequired
    ELSE Nil

\* Outcomes of the feature service's ListFeatures
FeatureOutcomes ==
    {[code |-> "OK", features |-> fs] : fs \in FeatureSets}
      \cup {[code |-> "Unknown", features |-> <<>>]}

\* getFeatures: the cache first, then ListFeatures, whose answer is put into
\* the cache.
getFeatures(environmentNamespace, cache, origin) ==
    LET get == <<Called("featuresCache.Get", environmentNamespace)>>
        rpc == <<Called("featureClient.ListFeatures", environmentNamespace)>>
    IN IF cache[environmentNamespace].hit
       THEN [features |-> cache[environmentNamespace].value, err |-> Nil,
             trace |-> get, cache |-> cache]
       ELSE IF origin.code # "OK"
       THEN [features |-> <<>>, err |-> ErrInternal, trace |-> get \o rpc, cache |-> cache]
       ELSE [features |-> origin.features, err |-> Nil,
             trace |-> get \o rpc \o <<Called("featuresCache.Put", origin.features)>>,
             cache |-> [cache EXCEPT ![environmentNamespace] =
                                        Entry(TRUE, origin.features)]]

UserEvaluations_FULL == "FULL"

\* gwproto.GetEvaluationsResponse; `nil` is no response, `evaluations.nil`
\* a response without the Evaluations field
Evaluations(nil, list) == [nil |-> nil, evaluations |-> list]
GetEvaluationsResponse(state, userEvaluationsId, evaluations) ==
    [nil |-> FALSE, state |-> state, userEvaluationsId |-> userEvaluationsId,
     evaluations |-> evaluations]
NoGetEvaluationsResponse ==
    [nil |-> TRUE, state |-> "", userEvaluationsId |-> NoUserEvaluationsID,
     evaluations |-> Evaluations(TRUE, <<>>)]

\* ------------------------------------------------------------ evaluation
Reason_DEFAULT == "DEFAULT"
Reason_RULE == "RULE"
Reason_OFF_VARIATION == "OFF_VARIATION"

Reason(type, ruleId) == [type |-> type, ruleId |-> ruleId]
Assignment(variation, reason) == [variation |-> variation, reason |-> reason]

SegmentIdNames == {"segment-id"}
SegmentOrder == <<"segment-id">>

\* the users of each segment, as far as they were fetched
NoSegmentUsers == [s \in SegmentIdNames |-> {}]

\* A clause matches: SEGMENT when the user is in one of the named segments,
\* EQUALS when the user's data has the attribute with one of the values.
clauseMatches(clause, user, segmentUsers) ==
    IF clause.operator = "SEGMENT"
    THEN \E sid \in clause.values : user.id \in segmentUsers[sid]
    ELSE \E v \in clause.values : <<clause.attribute, v>> \in user.data

\* A rule matches when all its clauses match.
ruleMatches(rule, user, segmentUsers) ==
    \A i \in DOMAIN rule.clauses : clauseMatches(rule.clauses[i], user, segmentUsers)

\* The rules in declared order: the strategy of the first rule that matches,
\* else the default strategy.
RECURSIVE matchRule(_, _, _, _)
matchRule(rules, user, segmentUsers, defaultVariation) ==
    IF rules = <<>> THEN Assignment(defaultVariation, Reason(Reason_DEFAULT, ""))
    ELSE IF ruleMatches(Head(rules), user, segmentUsers)
    THEN Assignment(Head(rules).variation, Reason(Reason_RULE, Head(rules).id))
    ELSE matchRule(Tail(rules), user, segmentUsers, defaultVariation)

\* A feature that is not enabled gets its off-variation when it has one; the
\* features evaluated with reason DEFAULT at lines 1224-1304 are not enabled
\* and have no off-variation.
servesOffVariation(feature) == ~feature.enabled /\ feature.offVariation # ""

\* Feature.assignUser
assignUser(feature, user, segmentUsers) ==
    IF servesOffVariation(feature)
    THEN Assignment(feature.offVariation, Reason(Reason_OFF_VARIATION, ""))
    ELSE matchRule(feature.rules, user, segmentUsers, feature.defaultVariation)

\* Only a feature that carries the tag is selected.
tagExistTagged(feature, tag) == tag \in feature.tags

\* The tag filter: a feature without tags matches every tag.
tagExist(feature, tag) == feature.tags = {} \/ tag \in feature.tags

featureproto_Evaluation(feature, user, assignment) ==
    [featureId |-> feature.id, featureVersion |-> feature.version,
     userId |-> user.id, variationId |-> assignment.variation,
     reason |-> assignment.reason]

\* EvaluateFeatures: one evaluation per selected feature, in the order of
\* the feature list.
RECURSIVE EvaluateFeatures(_, _, _, _)
EvaluateFeatures(features, user, segmentUsers, tag) ==
    IF features = <<>> THEN <<>>
    ELSE IF tagExist(Head(features), tag)
    THEN <<featureproto_Evaluation(Head(features), user,
                                   assignUser(Head(features), user, segmentUsers))>>
           \o EvaluateFeatures(Tail(features), user, segmentUsers, tag)
    ELSE EvaluateFeatures(Tail(features), user, segmentUsers, tag)

\* The segments named by the SEGMENT clauses the evaluation looks at.
ListSegmentIDs(features, tag) ==
    UNION {UNION {UNION {features[i].rules[j].clauses[k].values :
                           k \in {l \in DOMAIN features[i].rules[j].clauses :
                                    features[i].rules[j].clauses[l].operator = "SEGMENT"}} :
                     j \in DOMAIN features[i].rules} :
             i \in {h \in DOMAIN features :
                      tagExist(features[h], tag) /\ ~servesOffVariation(features[h])}}

SegmentResult(users, err, trace) == [users |-> users, err |-> err, trace |-> trace]

\* A failed ListSegmentUsers is taken for an empty segment.
getSegmentUsersEmptyOnError(segmentId, cache, o) ==
    LET get == <<Called("segmentUsersCache.Get", segmentId)>>
        rpc == <<Called("featureClient.ListSegmentUsers", segmentId)>>
    IN IF o.segmentGet = "OK" /\ cache[segmentId].hit
       THEN SegmentResult(cache[segmentId].value, Nil, get)
       ELSE IF o.evaluate # "OK"
       THEN SegmentResult({}, Nil, get \o rpc)
       ELSE SegmentResult(o.segmentUsers, Nil,
                get \o rpc \o <<Called("segmentUsersCache.Put", <<segmentId, o.segmentUsers>>)>>)

\* getSegmentUsers: the segment cache (any error of Get is a miss), then
\* ListSegmentUsers, whose answer is put into the cache.
getSegmentUsers(segmentId, cache, o) ==
    LET get == <<Called("segmentUsersCache.Get", segmentId)>>
        rpc == <<Called("featureClient.ListSegmentUsers", segmentId)>>
    IN IF o.segmentGet = "OK" /\ cache[segmentId].hit
       THEN SegmentResult(cache[segmentId].value, Nil, get)
       ELSE IF o.evaluate # "OK"
       THEN SegmentResult({}, ErrInternal, get \o rpc)
       ELSE SegmentResult(o.segmentUsers, Nil,
                get \o rpc \o <<Called("segmentUsersCache.Put", <<segmentId, o.segmentUsers>>)>>)

\* listSegmentUsers: the users of every segment in `ids`; the first error
\* ends the loop.
RECURSIVE listSegmentUsersLoop(_, _, _, _, _)
listSegmentUsersLoop(order, ids, cache, o, acc) ==
    IF order = <<>> \/ acc.err # Nil THEN acc
    ELSE IF Head(order) \notin ids
    THEN listSegmentUsersLoop(Tail(order), ids, cache, o, acc)
    ELSE LET r == getSegmentUsers(Head(order), cache, o) IN
         listSegmentUsersLoop(Tail(order), ids, cache, o,
             SegmentResult([acc.users EXCEPT ![Head(order)] = r.users], r.err,
                           acc.trace \o r.trace))

listSegmentUsers(ids, cache, o) ==
    listSegmentUsersLoop(SegmentOrder, ids, cache, o,
                         SegmentResult(NoSegmentUsers, Nil, <<>>))

\* The segment cache after the Put calls of `trace`.
segmentUsersCacheAfter(cache, trace) ==
    [sid \in DOMAIN cache |->
        LET puts == {i \in Calls(trace, "segmentUsersCache.Put") : trace[i][2][1] = sid}
        IN IF puts = {} THEN cache[sid]
           ELSE Entry(TRUE, trace[CHOOSE i \in puts : \A j \in puts : j <= i][2][2])]

\* evaluateFeatures of the gateway: fetch the segments, then evaluate.
evaluateFeatures(user, features, tag, segments, o) ==
    LET seg == listSegmentUsers(ListSegmentIDs(features, tag), segments, o)
    IN [evaluations |-> IF seg.err # Nil THEN <<>>
                        ELSE EvaluateFeatures(features, user, seg.users, tag),
        err |-> seg.err, trace |-> seg.trace]

GatewayResult(resp, err, trace, apiKeys, features, loaded) ==
    [resp |-> resp, err |-> err, trace |-> trace,
     environmentAPIKeyCache |-> apiKeys, featuresCache |-> features,
     loaded |-> loaded]

\* An empty feature list is handled like any other.
zeroFeaturesNever(features) == FALSE

\* GetEvaluations, the case of an environment without features
zeroFeatures(features) == Len(features) = 0

\* The evaluations are sent whether or not the client has the current id.
sameUserEvaluationsIDNever(requested, current) == FALSE

\* GetEvaluations: the client has the evaluations of the current id
sameUserEvaluationsID(requested, current) == requested = current

\* A failed publish of the user event fails the request.
publishUserSurfaced(outcome) == IF outcome = "Unknown" THEN ErrInternal ELSE Nil

\* publishUser: the user event is published in the background; a failure is
\* logged.
publishUser(outcome) == Nil

\* The call of the user publisher, unless it has not happened yet when the
\* request returns.
PublishCall(outcome, user) ==
    IF outcome = "Pending" THEN <<>> ELSE <<Called("userPublisher.Publish", user.id)>>

\* grpcGatewayService.GetEvaluations
GetEvaluations(ctx, req, apiKeys, features, segments, o) ==
    LET adm == checkRequest(ctx, apiKeys, o.account)
        fs == getFeatures(adm.key.environmentNamespace, features, o.features)
        ueid == currentUserEvaluationsID(req.user, fs.features, req.tag)
        pub == PublishCall(o.publish, req.user)
        ev == evaluateFeatures(req.user, fs.features, req.tag, segments, o)
    IN IF adm.err # Nil
       THEN GatewayResult(NoGetEvaluationsResponse, adm.err, adm.trace,
                          adm.cache, features, <<>>)
       ELSE IF validateGetEvaluationsRequest(req) # Nil
       THEN GatewayResult(NoGetEvaluationsResponse, validateGetEvaluationsRequest(req),
                          adm.trace, adm.cache, features, <<>>)
       ELSE IF publishUser(o.publish) # Nil
       THEN GatewayResult(NoGetEvaluationsResponse, publishUser(o.publish),
                          adm.trace \o pub, adm.cache, features, <<>>)
       ELSE IF fs.err # Nil
       THEN GatewayResult(NoGetEvaluationsResponse, fs.err,
                          adm.trace \o pub \o fs.trace, adm.cache, fs.cache, <<>>)
       ELSE IF zeroFeatures(fs.features)
       THEN GatewayResult(
                GetEvaluationsResponse(UserEvaluations_FULL, NoUserEvaluationsID,
                                       Evaluations(TRUE, <<>>)),
                Nil, adm.trace \o pub \o fs.trace, adm.cache, fs.cache, fs.features)
       ELSE IF sameUserEvaluationsID(req.userEvaluationsId, ueid)
       THEN GatewayResult(
                GetEvaluationsResponse(UserEvaluations_FULL, ueid, Evaluations(TRUE, <<>>)),
                Nil, adm.trace \o pub \o fs.trace, adm.cache, fs.cache, fs.features)
       ELSE IF ev.err # Nil
       THEN GatewayResult(NoGetEvaluationsResponse, ErrInternal,
                          adm.trace \o pub \o fs.trace \o ev.trace,
                          adm.cache, fs.cache, fs.features)
       ELSE GatewayResult(
                GetEvaluationsResponse(UserEvaluations_FULL, ueid,
                                       Evaluations(FALSE, ev.evaluations)),
                Nil, adm.trace \o pub \o fs.trace \o ev.trace,
                adm.cache, fs.cache, fs.features)

\* ----------------------------------------------------------- GetEvaluation
GetEvaluationRequest(tag, user, featureId) ==
    [tag |-> tag, user |-> user, featureId |-> featureId]

\* The feature id is looked at first.
validateGetEvaluationRequestIdFirst(req) ==
    IF req.featureId = "" THEN ErrFeatureIDRequired
    ELSE IF req.tag = "" THEN ErrTagRequired
    ELSE IF req.user.nil THEN ErrUserRequired
    ELSE IF req.user.id = "" THEN ErrUserIDRequired
    ELSE Nil

\* validateGetEvaluationRequest
validateGetEvaluationRequest(req) ==
    IF req.tag = "" THEN ErrTagRequired
    ELSE IF req.user.nil THEN ErrUserRequired
    ELSE IF req.user.id = "" THEN ErrUserIDRequired
    ELSE IF req.featureId = "" THEN ErrFeatureIDRequired
    ELSE Nil

\* gwproto.GetEvaluationResponse; `nil` is no response
GetEvaluationResponse(evaluation) == [nil |-> FALSE, evaluation |-> evaluation]
NoGetEvaluationResponse == [nil |-> TRUE, evaluation |-> <<>>]

\* The features of the list with the id: a list has each id once.
findFeature(id, features) == SelectSeq(features, LAMBDA f : f.id = id)

\* The upsert is not waited for: its failure is not seen.
upsertUserEvaluationIgnored(outcome) == Nil

\* userEvaluationStorage.UpsertUserEvaluation, as seen by GetEvaluation
upsertUserEvaluation(outcome) == IF outcome = "OK" THEN Nil ELSE ErrInternal

\* grpcGatewayService.GetEvaluation
GetEvaluation(ctx, req, apiKeys, features, segments, o) ==
    LET adm == checkRequest(ctx, apiKeys, o.account)
        fs == getFeatures(adm.key.environmentNamespace, features, o.features)
        pub == PublishCall(o.publish, req.user)
        found == findFeature(req.featureId, fs.features)
        ev == evaluateFeatures(req.user, found, req.tag, segments, o)
        upsert == <<Called("userEvaluationStorage.UpsertUserEvaluation",
                           <<req.user.id, adm.key.environmentNamespace, req.tag,
                             ev.evaluations>>)>>
    IN IF adm.err # Nil
       THEN GatewayResult(NoGetEvaluationResponse, adm.err, adm.trace,
                          adm.cache, features, <<>>)
       ELSE IF validateGetEvaluationRequest(req) # Nil
       THEN GatewayResult(NoGetEvaluationResponse, validateGetEvaluationRequest(req),
                          adm.trace, adm.cache, features, <<>>)
       ELSE IF publishUser(o.publish) # Nil
       THEN GatewayResult(NoGetEvaluationResponse, publishUser(o.publish),
                          adm.trace \o pub, adm.cache, features, <<>>)
       ELSE IF fs.err # Nil
       THEN GatewayResult(NoGetEvaluationResponse, fs.err,
                          adm.trace \o pub \o fs.trace, adm.cache, fs.cache, <<>>)
       ELSE IF found = <<>>
       THEN GatewayResult(NoGetEvaluationResponse, ErrFeatureNotFound,
                          adm.trace \o pub \o fs.trace, adm.cache, fs.cache, fs.features)
       ELSE IF ev.err # Nil
       THEN GatewayResult(NoGetEvaluationResponse, ErrInternal,
                          adm.trace \o pub \o fs.trace \o ev.trace,
                          adm.cache, fs.cache, fs.features)
       ELSE IF upsertUserEvaluation(o.upsert) # Nil
       THEN GatewayResult(NoGetEvaluationResponse, ErrInternal,
                          adm.trace \o pub \o fs.trace \o ev.trace \o upsert,
                          adm.cache, fs.cache, fs.features)
       ELSE GatewayResult(GetEvaluationResponse(ev.evaluations), Nil,
                          adm.trace \o pub \o fs.trace \o ev.trace \o upsert,
                          adm.cache, fs.cache, fs.features)

\* ---------------------------------------------------------- RegisterEvents
MaxEvents == 2

EventIdNames == <<"uuid0", "uuid1", "uuid2", "uuid3", "uuid4", "uuid5">>

\* The inner payloads: the four types the gateway routes and a payload of
\* another type (an any.Any in an any.Any).
EventTypes == {"GoalEvent", "GoalBatchEvent", "EvaluationEvent", "MetricsEvent", "Any"}
RoutedTypes == {"GoalEvent", "GoalBatchEvent", "EvaluationEvent", "MetricsEvent"}

\* eventproto.Event of a request
Event(id, type) == [id |-> id, type |-> type]

\* Requests of up to MaxEvents events; the ids are distinct (uuids), except
\* that one event may come without id.
RegisterEventsRequests ==
    UNION {{[i \in 1..n |-> Event(IF i = blank THEN "" ELSE EventIdNames[i], types[i])] :
               types \in [1..n -> EventTypes], blank \in 0..n} :
           n \in 0..MaxEvents}

NoEvents == <<>>

\* Per event of the request: does UpsertUserEvaluation fail for it?
UpsertOutcomes(events) ==
    {o \in [DOMAIN events -> {"OK", "Unknown"}] :
        \A i \in DOMAIN events : events[i].type # "EvaluationEvent" => o[i] = "OK"}

\* gwproto.RegisterEventsResponse_Error under an event id
ResponseError(id, retriable, message) ==
    [id |-> id, retriable |-> retriable, message |-> message]

RegisterEventsResponse(nil, errors) == [nil |-> nil, errors |-> errors]

\* The publisher of each routed type
PublisherOf(type) ==
    CASE type = "GoalEvent" -> "goalPublisher.PublishMulti"
      [] type = "GoalBatchEvent" -> "goalBatchPublisher.PublishMulti"
      [] type = "EvaluationEvent" -> "evaluationPublisher.PublishMulti"
      [] type = "MetricsEvent" -> "metricsPublisher.PublishMulti"

PublisherOrder == <<"GoalEvent", "GoalBatchEvent", "EvaluationEvent", "MetricsEvent">>

NoResponseError == ResponseError("", FALSE, "")

\* A failed upsert is reported as not retriable.
eventErrorUpsertFinal(event, upsert) ==
    IF event.type \notin RoutedTypes
    THEN ResponseError(event.id, FALSE, "Invalid message type")
    ELSE IF event.type = "EvaluationEvent" /\ upsert # "OK"
    THEN ResponseError(event.id, FALSE, "Failed to upsert user evaluation")
    ELSE NoResponseError

\* RegisterEvents, the body of the loop over the events: the entry of the
\* errors map the event gets, if any.  `upsert` is the outcome of
\* UpsertUserEvaluation, called for evaluation events.
eventError(event, upsert) ==
    IF event.type \notin RoutedTypes
    THEN ResponseError(event.id, FALSE, "Invalid message type")
    ELSE IF event.type = "EvaluationEvent" /\ upsert # "OK"
    THEN ResponseError(event.id, TRUE, "Failed to upsert user evaluation")
    ELSE NoResponseError

\* An event that failed is published all the same.
routedEventsAll(events, upsert) ==
    {i \in DOMAIN events : events[i].type \in RoutedTypes}

\* The events handed to the publishers: those without an entry in the
\* errors map.
routedEvents(events, upsert) ==
    {i \in DOMAIN events : eventError(events[i], upsert[i]) = NoResponseError}

\* Only the number of events is checked.
validateEventsCountOnly(events) ==
    IF Len(events) = 0 THEN ErrMissingEvents ELSE Nil

\* RegisterEvents, the checks that fail the whole call
validateEvents(events) ==
    IF Len(events) = 0 THEN ErrMissingEvents
    ELSE IF \E i \in DOMAIN events : events[i].id = "" THEN ErrMissingEventID
    ELSE Nil

\* RegisterEvents after admission: the per-event loop (unknown type, upsert
\* of evaluation events) and one PublishMulti per type that has events.
registerEvents(events, upsert) ==
    LET evals == {i \in DOMAIN events : events[i].type = "EvaluationEvent"}
        routed == routedEvents(events, upsert)
        upserts == [i \in DOMAIN events |->
                       IF i \in evals
                       THEN <<Called("userEvaluationStorage.UpsertUserEvaluation",
                                     events[i].id)>>
                       ELSE <<>>]
        publish == [k \in DOMAIN PublisherOrder |->
                       LET ids == {events[i].id :
                                     i \in {j \in routed : events[j].type = PublisherOrder[k]}}
                       IN IF ids = {} THEN <<>>
                          ELSE <<Called(PublisherOf(PublisherOrder[k]), ids)>>]
        Flat(f) == IF DOMAIN f = {} THEN <<>>
                   ELSE LET F[i \in 0..Len(f)] == IF i = 0 THEN <<>> ELSE F[i-1] \o f[i]
                        IN F[Len(f)]
    IN [errors |-> {eventError(events[i], upsert[i]) : i \in DOMAIN events}
                     \ {NoResponseError},
        trace |-> Flat(upserts) \o Flat(publish)]

NoRegisterEventsResponse == RegisterEventsResponse(TRUE, {})

\* grpcGatewayService.RegisterEvents
RegisterEvents(ctx, req, apiKeys, features, o) ==
    LET adm == checkRequest(ctx, apiKeys, o.account)
        r == registerEvents(req, o.upsert)
    IN IF adm.err # Nil
       THEN GatewayResult(NoRegisterEventsResponse, adm.err, adm.trace,
                          adm.cache, features, <<>>)
       ELSE IF validateEvents(req) # Nil
       THEN GatewayResult(NoRegisterEventsResponse, validateEvents(req), adm.trace,
                          adm.cache, features, <<>>)
       ELSE GatewayResult(RegisterEventsResponse(FALSE, r.errors), Nil,
                          adm.trace \o r.trace, adm.cache, features, <<>>)

\* no gateway call made yet
NoCall == [method |-> "none"]


\* ------------------------------------------------- notification: data
\* The ids domain.NewSubscription can give a subscription.
SubscriptionIds == {"s1"}
NoSubscription == [name |-> "", sourceTypes |-> {}, disabled |-> FALSE, exists |-> FALSE]

\* ------------------------------------------------------------------ state
VARIABLES
    postgresClient, \* Persister.postgresClient # nil
    ctxDone,        \* Persister.ctx is cancelled
    doneCh,         \* Persister.doneCh is closed
    runPc,          \* Run: "idle" (not called), "waiting" (in group.Wait), "returned"
    stopPc,         \* Stop: "idle" (not called), "waiting" (in <-doneCh), "returned"
    pullerPc,       \* puller.Run goroutine: "idle", "running", "done"
    chClosed,       \* puller.MessageCh() is closed
    wPc,            \* batch goroutines: "idle", "loop" (in select), "done"
    batch,          \* the local map `batch` of each worker: id -> message
    timerC,         \* a tick is pending in each worker's timer.C
    nextMid,        \* messages pulled so far + 1
    settled,        \* per message: the <<Ack|Nack, counter label>> calls so far
    replacedBy,     \* per message: the message that took its place in a batch, or 0
    last,           \* the step just taken
    environmentAPIKeyCache, \* the gateway's cache of API keys: key id -> entry
    featuresCache,  \* the gateway's cache of features: environment -> entry
    segmentUsersCache, \* the gateway's cache of segment users: segment -> entry
    call,           \* the gateway call just made
    subscriptions,  \* the notification service's stored subscriptions: id -> row
    mutation        \* the subscription call just made

persisterVars == <<postgresClient, ctxDone, doneCh, runPc, stopPc, pullerPc, chClosed,
                   wPc, batch, timerC, nextMid, settled, replacedBy, last>>

gatewayVars == <<environmentAPIKeyCache, featuresCache, segmentUsersCache, call>>

notificationVars == <<subscriptions, mutation>>

\* what the persister leaves alone
apiVars == <<gatewayVars, notificationVars>>

vars == <<persisterVars, gatewayVars, notificationVars>>

NoSend == [early |-> TRUE]
NoMessage == Message(0, EmptyId, BadOuter)

Step(act, w, msg, before, sent, sr) ==
    [act |-> act, w |-> w, msg |-> msg, before |-> before,
     sent |-> sent, send |-> sr]

Quiet(act, w) == Step(act, w, NoMessage, EmptyMap, FALSE, NoSend)

Init ==
    /\ postgresClient \in BOOLEAN
    /\ ctxDone = FALSE
    /\ doneCh = FALSE
    /\ runPc = "idle"
    /\ stopPc = "idle"
    /\ pullerPc = "idle"
    /\ chClosed = FALSE
    /\ wPc = [w \in Workers |-> "idle"]
    /\ batch = [w \in Workers |-> EmptyMap]
    /\ timerC = [w \in Workers |-> FALSE]
    /\ nextMid = 1
    /\ settled = [m \in Mids |-> <<>>]
    /\ replacedBy = [m \in Mids |-> 0]
    /\ last = Quiet("init", 0)
    /\ environmentAPIKeyCache = [k \in KeyIds |-> Entry(FALSE, NoEnvironmentAPIKey)]
    /\ featuresCache = [e \in {"ns0"} |-> Entry(FALSE, <<>>)]
    /\ segmentUsersCache = [sid \in SegmentIdNames |-> Entry(FALSE, {})]
    /\ call = NoCall
    /\ subscriptions = [id \in SubscriptionIds |-> NoSubscription]
    /\ mutation = NoCall

\* ---------------------------------------------------------- Run and Stop
\* Persister.Run up to group.Wait: starts the puller and numWorkers workers
\* (each creates its timer on entry to batch).
Run ==
    /\ runPc = "idle"
    /\ runPc' = "waiting"
    /\ pullerPc' = "running"
    /\ wPc' = [w \in Workers |-> "loop"]
    /\ last' = Quiet("Run", 0)
    /\ UNCHANGED <<apiVars, replacedBy, postgresClient, ctxDone, doneCh, stopPc, chClosed, batch,
                   timerC, nextMid, settled>>

\* errgroup.Group.Wait returns once every goroutine started with Go is done.
GroupDone == pullerPc = "done" /\ \A w \in Workers : wPc[w] = "done"

\* Persister.Run: group.Wait returns, the deferred close(doneCh) runs.
RunReturn ==
    /\ runPc = "waiting"
    /\ GroupDone
    /\ runPc' = "returned"
    /\ doneCh' = TRUE
    /\ last' = Quiet("RunReturn", 0)
    /\ UNCHANGED <<apiVars, replacedBy, postgresClient, ctxDone, stopPc, pullerPc, chClosed, wPc,
                   batch, timerC, nextMid, settled>>

\* Persister.Stop: p.cancel()
StopCancel ==
    /\ stopPc = "idle"
    /\ stopPc' = "waiting"
    /\ ctxDone' = TRUE
    /\ last' = Quiet("StopCancel", 0)
    /\ UNCHANGED <<apiVars, replacedBy, postgresClient, doneCh, runPc, pullerPc, chClosed, wPc,
                   batch, timerC, nextMid, settled>>

\* Stop returns right after p.cancel().
StopReturnNoWait ==
    /\ stopPc = "waiting"
    /\ stopPc' = "returned"
    /\ last' = Quiet("StopReturn", 0)
    /\ UNCHANGED <<apiVars, replacedBy, postgresClient, ctxDone, doneCh, runPc, pullerPc,
                   chClosed, wPc, batch, timerC, nextMid, settled>>

\* Persister.Stop: <-p.doneCh
StopReturn ==
    /\ stopPc = "waiting"
    /\ doneCh
    /\ stopPc' = "returned"
    /\ last' = Quiet("StopReturn", 0)
    /\ UNCHANGED <<apiVars, replacedBy, postgresClient, ctxDone, doneCh, runPc, pullerPc, chClosed,
                   wPc, batch, timerC, nextMid, settled>>

\* puller.Run(p.ctx): on cancellation the puller closes its channel and returns.
PullerExit ==
    /\ pullerPc = "running"
    /\ ctxDone
    /\ pullerPc' = "done"
    /\ chClosed' = TRUE
    /\ last' = Quiet("PullerExit", 0)
    /\ UNCHANGED <<apiVars, replacedBy, postgresClient, ctxDone, doneCh, runPc, stopPc, wPc, batch,
                   timerC, nextMid, settled>>


\* --------------------------------------------------------------- workers
\* The outcomes the collaborators may produce for a batch, per batch key.
RECURSIVE OracleMaps(_, _, _)
OracleMaps(messages, keys, pg) ==
    IF keys = <<>> THEN {EmptyMap}
    ELSE {Put(f, Head(keys), o) :
            f \in OracleMaps(messages, Tail(keys), pg),
            o \in OraclesFor(messages[Head(keys)], pg)}

DecodedEnvs(messages) ==
    {messages[k].data.environmentNamespace :
        k \in {j \in DOMAIN messages : messages[j].data.decode = "ok"}}

\* Go leaves the iteration order of a map open.  The order of extractEvents
\* matters only when two messages decode to the same environment and event
\* id (the later one overwrites the earlier), the order of the environments
\* in send only when one event id occurs in two environments (they share an
\* entry of `fails`); otherwise one order stands for all.
Decoded(messages) == {k \in DOMAIN messages : messages[k].data.decode = "ok"}

MessageOrders(messages) ==
    IF \E j, k \in Decoded(messages) :
          /\ j # k
          /\ messages[j].data.id = messages[k].data.id
          /\ messages[j].data.environmentNamespace = messages[k].data.environmentNamespace
    THEN Orders(DOMAIN messages)
    ELSE {SetToSeq(DOMAIN messages)}

EnvOrders(messages) ==
    IF \E j, k \in Decoded(messages) :
          /\ messages[j].data.id = messages[k].data.id
          /\ messages[j].data.environmentNamespace # messages[k].data.environmentNamespace
    THEN Orders(DecodedEnvs(messages))
    ELSE {SetToSeq(DecodedEnvs(messages))}

\* What a call p.send(messages) depends on besides its argument: the two
\* iteration orders, the outcomes of the collaborators' calls and, per
\* environment, whether datastore.Write returns an error.
SendInputs(messages, pg) ==
    MessageOrders(messages) \X EnvOrders(messages)
      \X OracleMaps(messages, SetToSeq(DOMAIN messages), pg)
      \X [DecodedEnvs(messages) -> BOOLEAN]

SendWith(messages, pg, in) == send(messages, in[1], in[2], in[3], pg, in[4])

\* The Ack/Nack calls of a send, appended to the logs of its messages.
Settle(s, sr) ==
    [m \in Mids |->
        IF \E id \in DOMAIN sr.messages : sr.messages[id].mid = m
        THEN s[m] \o sr.log[CHOOSE id \in DOMAIN sr.messages : sr.messages[id].mid = m]
        ELSE s[m]]

\* The message already stored under the id is forgotten without an Ack.
AckPreviousSkip(s, b, id) == s

\* batch(), lines 206-210: a message under the same id is Acked first.
AckPrevious(s, b, id) ==
    IF id \in DOMAIN b
    THEN [s EXCEPT ![b[id].mid] = @ \o <<<<"Ack", DuplicateID>>>>]
    ELSE s

\* The message already stored under the id is kept.
InsertKeepFirst(b, id, msg) == IF id \in DOMAIN b THEN b ELSE Put(b, id, msg)

\* batch(), line 211
Insert(b, id, msg) == Put(b, id, msg)

\* `<=` in place of `<`
BatchFullOffByOne(b) == ~(Cardinality(DOMAIN b) <= FlushSize)

\* batch(), lines 212-214: `if len(batch) < p.opts.flushSize { continue }`
BatchFull(b) == ~(Cardinality(DOMAIN b) < FlushSize)

\* no check of the id attribute
MissingIdNever(id) == FALSE

\* batch(), lines 200-205: `if id == ""`
MissingId(id) == id = EmptyId

\* timer.Reset after a size-triggered flush: a tick that was already pending
\* in timer.C stays there or is dropped, depending on the Go runtime.
ResetPending(pending) == {pending, FALSE}

\* batch(), `case msg, ok := <-p.puller.MessageCh()` with ok = true.  The
\* puller hands over its next message; `contents` are the messages the bus
\* may carry, `max` bounds their number.
WorkerRecv(w, contents, max) ==
    /\ wPc[w] = "loop"
    /\ pullerPc = "running"
    /\ nextMid <= max
    /\ nextMid' = nextMid + 1
    /\ \E c \in contents :
         LET msg == Message(nextMid, c[1], c[2])
             s1 == AckPrevious(settled, batch[w], msg.id)
             b1 == Insert(batch[w], msg.id, msg)
         IN
         /\ replacedBy' = IF ~MissingId(msg.id) /\ msg.id \in DOMAIN batch[w]
                          THEN [replacedBy EXCEPT ![batch[w][msg.id].mid] = msg.mid]
                          ELSE replacedBy
         /\ IF MissingId(msg.id)
            THEN /\ settled' = [settled EXCEPT ![msg.mid] = @ \o <<<<"Ack", MissingID>>>>]
                 /\ last' = Step("recv", w, msg, batch[w], FALSE, NoSend)
                 /\ UNCHANGED <<batch, timerC>>
            ELSE IF ~BatchFull(b1)
            THEN /\ settled' = s1
                 /\ batch' = [batch EXCEPT ![w] = b1]
                 /\ last' = Step("recv", w, msg, batch[w], FALSE, NoSend)
                 /\ UNCHANGED timerC
            ELSE \E in \in SendInputs(b1, postgresClient) :
                 LET sr == SendWith(b1, postgresClient, in) IN
                 /\ settled' = Settle(s1, sr)
                 /\ batch' = [batch EXCEPT ![w] = EmptyMap]
                 /\ \E t \in ResetPending(timerC[w]) :
                        timerC' = [timerC EXCEPT ![w] = t]
                 /\ last' = Step("recv", w, msg, batch[w], TRUE, sr)
    /\ UNCHANGED <<apiVars, postgresClient, ctxDone, doneCh, runPc, stopPc, pullerPc,
                   chClosed, wPc>>

\* The timer case only re-arms the timer: a batch below flushSize waits for
\* more messages.
WorkerTimerIdle(w) ==
    /\ wPc[w] = "loop"
    /\ timerC[w]
    /\ timerC' = [timerC EXCEPT ![w] = FALSE]
    /\ last' = Step("timer", w, NoMessage, batch[w], FALSE, NoSend)
    /\ UNCHANGED <<apiVars, replacedBy, postgresClient, ctxDone, doneCh, runPc, stopPc,
                   pullerPc, chClosed, wPc, nextMid, settled, batch>>

\* batch(), `case <-timer.C`
WorkerTimer(w) ==
    /\ wPc[w] = "loop"
    /\ timerC[w]
    /\ timerC' = [timerC EXCEPT ![w] = FALSE]
    /\ IF Cardinality(DOMAIN batch[w]) > 0
       THEN \E in \in SendInputs(batch[w], postgresClient) :
            LET sr == SendWith(batch[w], postgresClient, in) IN
            /\ settled' = Settle(settled, sr)
            /\ batch' = [batch EXCEPT ![w] = EmptyMap]
            /\ last' = Step("timer", w, NoMessage, batch[w], TRUE, sr)
       ELSE /\ last' = Step("timer", w, NoMessage, batch[w], FALSE, NoSend)
            /\ UNCHANGED <<settled, batch>>
    /\ UNCHANGED <<apiVars, replacedBy, postgresClient, ctxDone, doneCh, runPc, stopPc, pullerPc,
                   chClosed, wPc, nextMid>>

\* The runtime fires the worker's timer: flushInterval has passed since the
\* timer was created or last reset.
TimerFire(w) ==
    /\ wPc[w] = "loop"
    /\ ~timerC[w]
    /\ timerC' = [timerC EXCEPT ![w] = TRUE]
    /\ last' = Quiet("TimerFire", w)
    /\ UNCHANGED <<apiVars, replacedBy, postgresClient, ctxDone, doneCh, runPc, stopPc, pullerPc,
                   chClosed, wPc, batch, nextMid, settled>>

\* batch(), `case <-p.ctx.Done(): return nil`
WorkerCtxDone(w) ==
    /\ wPc[w] = "loop"
    /\ ctxDone
    /\ wPc' = [wPc EXCEPT ![w] = "done"]
    /\ last' = Step("ctxDone", w, NoMessage, batch[w], FALSE, NoSend)
    /\ UNCHANGED <<apiVars, replacedBy, postgresClient, ctxDone, doneCh, runPc, stopPc, pullerPc,
                   chClosed, batch, timerC, nextMid, settled>>

\* batch(), `case msg, ok := <-p.puller.MessageCh()` with ok = false
WorkerChClosed(w) ==
    /\ wPc[w] = "loop"
    /\ chClosed
    /\ wPc' = [wPc EXCEPT ![w] = "done"]
    /\ last' = Step("chClosed", w, NoMessage, batch[w], FALSE, NoSend)
    /\ UNCHANGED <<apiVars, replacedBy, postgresClient, ctxDone, doneCh, runPc, stopPc, pullerPc,
                   chClosed, batch, timerC, nextMid, settled>>

\* ------------------------------------------------------- what the bus carries
\* Messages of the platform's publishers carry the event id as their id
\* attribute; a message may also lack the attribute or carry bytes that do
\* not decode.
Published(ids, envs, events) ==
    {<<id, Data("ok", env, id, e)>> : id \in ids, env \in envs, e \in events}

BusContents ==
    Published(Ids, {"e1"}, {EvaluationEvent})
      \cup {<<"a", BadOuter>>}
      \cup {<<id, BadInner("e1", id)>> : id \in Ids \ {"a"}}
      \cup {<<EmptyId, Data("ok", "e1", "a", EvaluationEvent)>>}

Recv(w) == WorkerRecv(w, BusContents, MaxMsgs)

Next ==
    \/ Run
    \/ RunReturn
    \/ StopCancel
    \/ StopReturn
    \/ PullerExit
    \/ \E w \in Workers : Recv(w)
    \/ \E w \in Workers : WorkerTimer(w)
    \/ \E w \in Workers : TimerFire(w)
    \/ \E w \in Workers : WorkerCtxDone(w)
    \/ \E w \in Workers : WorkerChClosed(w)

Spec == Init /\ [][Next]_vars

\* The same persister fed with goal events: every combination of sourceId,
\* tag and client-supplied evaluations under id "a", evaluation events under
\* the other ids.
GoalContents ==
    Published({"a"}, {"e1"}, GoalEvents)
      \cup Published(Ids \ {"a"}, {"e1"}, {EvaluationEvent})

\* enough messages to fill one batch
RecvGoal(w) == WorkerRecv(w, GoalContents, FlushSize)

NextGoal ==
    \/ Run
    \/ RunReturn
    \/ StopCancel
    \/ StopReturn
    \/ PullerExit
    \/ \E w \in Workers : RecvGoal(w)
    \/ \E w \in Workers : WorkerTimer(w)
    \/ \E w \in Workers : TimerFire(w)
    \/ \E w \in Workers : WorkerCtxDone(w)
    \/ \E w \in Workers : WorkerChClosed(w)

SpecGoal == Init /\ [][NextGoal]_vars

\* The same persister fed from two environments: a goal event whose
\* enrichment may fail under id "a", evaluation events under the other ids.
EnvContents ==
    Published({"a"}, {"e1", "e2"}, {GoalEvent(GOAL_BATCH, "t", <<>>)})
      \cup Published(Ids \ {"a"}, {"e1", "e2"}, {EvaluationEvent})

RecvEnvs(w) == WorkerRecv(w, EnvContents, FlushSize)

NextEnvs ==
    \/ Run
    \/ RunReturn
    \/ StopCancel
    \/ StopReturn
    \/ PullerExit
    \/ \E w \in Workers : RecvEnvs(w)
    \/ \E w \in Workers : WorkerTimer(w)
    \/ \E w \in Workers : TimerFire(w)
    \/ \E w \in Workers : WorkerCtxDone(w)
    \/ \E w \in Workers : WorkerChClosed(w)

\* without row store: createEvent is not called
InitEnvs == Init /\ postgresClient = FALSE

SpecEnvs == InitEnvs /\ [][NextEnvs]_vars

\* The same persister fed with events of every inner type under id "a":
\* the three the persister stores and two it does not.
TypeContents ==
    Published({"a"}, {"e1"},
              {EvaluationEvent, UserEvent, MetricsEvent, GoalBatchEvent})
      \cup Published(Ids \ {"a"}, {"e1"}, {EvaluationEvent})

RecvTypes(w) == WorkerRecv(w, TypeContents, FlushSize)

NextTypes ==
    \/ Run
    \/ RunReturn
    \/ StopCancel
    \/ StopReturn
    \/ PullerExit
    \/ \E w \in Workers : RecvTypes(w)
    \/ \E w \in Workers : WorkerTimer(w)
    \/ \E w \in Workers : TimerFire(w)
    \/ \E w \in Workers : WorkerCtxDone(w)
    \/ \E w \in Workers : WorkerChClosed(w)

SpecTypes == Init /\ [][NextTypes]_vars

\* ------------------------------------------------------------------ health
Healthy == "Healthy"
Unhealthy == "Unhealthy"

\* errgroup.Group.FinishedCount: the goroutines started with Go that returned
FinishedCount ==
    Cardinality({w \in Workers : wPc[w] = "done"})
      + (IF pullerPc = "done" THEN 1 ELSE 0)

\* Only the root context is looked at.
CheckContextOnly == IF ctxDone THEN Unhealthy ELSE Healthy

\* Persister.Check: what a call returns in the current state
Check ==
    IF ctxDone THEN Unhealthy
    ELSE IF FinishedCount > 0 THEN Unhealthy
    ELSE Healthy

\* A call of Persister.Check by the health checker; it changes nothing.
CallCheck ==
    /\ last' = [Quiet("Check", 0) EXCEPT !.send = [early |-> TRUE, status |-> Check]]
    /\ UNCHANGED <<apiVars, postgresClient, ctxDone, doneCh, runPc, stopPc, pullerPc,
                   chClosed, wPc, batch, timerC, nextMid, settled, replacedBy>>

\* puller.Run returns, on cancellation or with an error of its own (the
\* subscription fails); its channel is closed.
PullerReturn ==
    /\ pullerPc = "running"
    /\ pullerPc' = "done"
    /\ chClosed' = TRUE
    /\ last' = Quiet("PullerReturn", 0)
    /\ UNCHANGED <<apiVars, replacedBy, postgresClient, ctxDone, doneCh, runPc, stopPc, wPc, batch,
                   timerC, nextMid, settled>>

HealthContents == Published(Ids, {"e1"}, {EvaluationEvent})

RecvHealth(w) == WorkerRecv(w, HealthContents, FlushSize)

NextHealth ==
    \/ Run
    \/ RunReturn
    \/ StopCancel
    \/ StopReturn
    \/ PullerReturn
    \/ CallCheck
    \/ \E w \in Workers : RecvHealth(w)
    \/ \E w \in Workers : WorkerTimer(w)
    \/ \E w \in Workers : TimerFire(w)
    \/ \E w \in Workers : WorkerCtxDone(w)
    \/ \E w \in Workers : WorkerChClosed(w)

SpecHealth == Init /\ [][NextHealth]_vars

\* ----------------------------------------------------------- gateway calls
GatewayCall(method, ctx, req, o, apiKeys, features, segments, r) ==
    [method |-> method, ctx |-> ctx, req |-> req, o |-> o,
     before |-> [environmentAPIKeyCache |-> apiKeys, featuresCache |-> features,
                 segmentUsersCache |-> segments],
     resp |-> r.resp, err |-> r.err, trace |-> r.trace, loaded |-> r.loaded]

\* The outcomes of the calls a request makes: of the account service, of
\* ListFeatures, of segmentUsersCache.Get, of ListSegmentUsers (`evaluate`
\* is its code, `segmentUsers` its answer), of the user publisher and of
\* the upserts.
EvaluationOracle(account, features, segmentGet, evaluate, segmentUsers, publish, upsert) ==
    [account |-> account, features |-> features, segmentGet |-> segmentGet,
     evaluate |-> evaluate, segmentUsers |-> segmentUsers, publish |-> publish,
     upsert |-> upsert]

\* the user event is published, fails to be, or is not yet when the request
\* returns
PublishOutcomes == {"OK", "Unknown", "Pending"}

GatewayOracle(account, features, evaluate, upsert) ==
    EvaluationOracle(account, features, "OK", evaluate, {}, "OK", upsert)

AccountOK == [code |-> "OK", key |-> EnvironmentAPIKey(APIKey_SDK, FALSE, FALSE)]
FeaturesOK == [code |-> "OK", features |-> <<>>]

\* Only the outcomes of the calls a request makes vary.
AccountOutcomesFor(ctx) ==
    IF /\ ~ctx.canceled
       /\ extractAPIKeyID(ctx).err = Nil
       /\ ~environmentAPIKeyCache[extractAPIKeyID(ctx).key].hit
    THEN AccountOutcomes ELSE {AccountOK}

EmptyGetEvaluationsRequest ==
    GetEvaluationsRequest("", User(TRUE, "", {}), NoUserEvaluationsID)

\* A call of GetEvaluations with one of `requests`, ListFeatures answering
\* with one of `featureOutcomes` and ListSegmentUsers with one of
\* `segmentUserSets`.  A request that is not admitted is not looked at: the
\* empty request stands for all.
CallGetEvaluationsOver(requests, featureOutcomes, segmentUserSets) ==
    \E ctx \in Contexts : \E account \in AccountOutcomesFor(ctx) :
      LET adm == checkRequest(ctx, environmentAPIKeyCache, account) IN
      \E req \in (IF adm.err = Nil THEN requests
                  ELSE {EmptyGetEvaluationsRequest}) :
        LET valid == adm.err = Nil /\ validateGetEvaluationsRequest(req) = Nil IN
        \E fo \in (IF valid /\ ~featuresCache[adm.key.environmentNamespace].hit
                   THEN featureOutcomes ELSE {FeaturesOK}) :
        \E publish \in (IF valid THEN PublishOutcomes ELSE {"OK"}) :
          LET entry == featuresCache[adm.key.environmentNamespace]
              loaded == IF entry.hit THEN entry.value ELSE fo.features
              gets == /\ valid
                      /\ fo.code = "OK"
                      /\ ~sameUserEvaluationsID(req.userEvaluationsId,
                             currentUserEvaluationsID(req.user, loaded, req.tag))
                      /\ ListSegmentIDs(loaded, req.tag) # {}
              hit == \E sid \in SegmentIdNames : segmentUsersCache[sid].hit
          IN
          \E segmentGet \in (IF gets /\ hit THEN {"OK", "Unknown"}
                             ELSE IF gets THEN {"Unknown"} ELSE {"OK"}) :
          \E ev \in (IF gets /\ ~(segmentGet = "OK" /\ hit)
                     THEN {"OK", "Unknown"} ELSE {"OK"}) :
          \E users \in (IF gets /\ ~(segmentGet = "OK" /\ hit) /\ ev = "OK"
                        THEN segmentUserSets ELSE {{}}) :
            LET o == EvaluationOracle(account, fo, segmentGet, ev, users, publish,
                                      NoEvents)
                r == GetEvaluations(ctx, req, environmentAPIKeyCache, featuresCache,
                                    segmentUsersCache, o)
            IN
               /\ call' = GatewayCall("GetEvaluations", ctx, req, o,
                                      environmentAPIKeyCache, featuresCache,
                                      segmentUsersCache, r)
               /\ environmentAPIKeyCache' = r.environmentAPIKeyCache
               /\ featuresCache' = r.featuresCache
               /\ segmentUsersCache' = segmentUsersCacheAfter(segmentUsersCache, r.trace)
               /\ UNCHANGED <<persisterVars, notificationVars>>

CallGetEvaluations(requests) ==
    CallGetEvaluationsOver(requests, FeatureOutcomes, {{}})

EmptyGetEvaluationRequest == GetEvaluationRequest("", User(TRUE, "", {}), "")

\* A call of GetEvaluation with one of `requests`.
CallGetEvaluation(requests, featureOutcomes, segmentUserSets) ==
    \E ctx \in Contexts : \E account \in AccountOutcomesFor(ctx) :
      LET adm == checkRequest(ctx, environmentAPIKeyCache, account) IN
      \E req \in (IF adm.err = Nil THEN requests
                  ELSE {EmptyGetEvaluationRequest}) :
        LET valid == adm.err = Nil /\ validateGetEvaluationRequest(req) = Nil IN
        \E fo \in (IF valid /\ ~featuresCache[adm.key.environmentNamespace].hit
                   THEN featureOutcomes ELSE {FeaturesOK}) :
        \E publish \in (IF valid THEN PublishOutcomes ELSE {"OK"}) :
          LET entry == featuresCache[adm.key.environmentNamespace]
              loaded == IF entry.hit THEN entry.value ELSE fo.features
              found == valid /\ fo.code = "OK" /\ findFeature(req.featureId, loaded) # <<>>
              gets == found /\ ListSegmentIDs(findFeature(req.featureId, loaded), req.tag) # {}
              hit == \E sid \in SegmentIdNames : segmentUsersCache[sid].hit
          IN
          \E segmentGet \in (IF gets /\ hit THEN {"OK", "Unknown"}
                             ELSE IF gets THEN {"Unknown"} ELSE {"OK"}) :
          \E ev \in (IF gets /\ ~(segmentGet = "OK" /\ hit)
                     THEN {"OK", "Unknown"} ELSE {"OK"}) :
          \E users \in (IF gets /\ ~(segmentGet = "OK" /\ hit) /\ ev = "OK"
                        THEN segmentUserSets ELSE {{}}) :
          \E up \in (IF found /\ ev = "OK" THEN {"OK", "Unknown"} ELSE {"OK"}) :
            LET o == EvaluationOracle(account, fo, segmentGet, ev, users, publish, up)
                r == GetEvaluation(ctx, req, environmentAPIKeyCache, featuresCache,
                                   segmentUsersCache, o)
            IN /\ call' = GatewayCall("GetEvaluation", ctx, req, o,
                                      environmentAPIKeyCache, featuresCache,
                                      segmentUsersCache, r)
               /\ environmentAPIKeyCache' = r.environmentAPIKeyCache
               /\ featuresCache' = r.featuresCache
               /\ segmentUsersCache' = segmentUsersCacheAfter(segmentUsersCache, r.trace)
               /\ UNCHANGED <<persisterVars, notificationVars>>

\* A call of RegisterEvents with one of `requests`.
CallRegisterEvents(requests) ==
    \E ctx \in Contexts : \E account \in AccountOutcomesFor(ctx) :
      LET adm == checkRequest(ctx, environmentAPIKeyCache, account) IN
      \E req \in (IF adm.err = Nil THEN requests ELSE {NoEvents}) :
        \E up \in UpsertOutcomes(req) :
          LET o == GatewayOracle(account, FeaturesOK, "OK", up)
              r == RegisterEvents(ctx, req, environmentAPIKeyCache, featuresCache, o)
          IN /\ (validateEvents(req) # Nil => \A i \in DOMAIN up : up[i] = "OK")
             /\ call' = GatewayCall("RegisterEvents", ctx, req, o,
                                    environmentAPIKeyCache, featuresCache,
                                    segmentUsersCache, r)
             /\ environmentAPIKeyCache' = r.environmentAPIKeyCache
             /\ featuresCache' = r.featuresCache
             /\ UNCHANGED <<segmentUsersCache, persisterVars, notificationVars>>

\* The TTL of a cache entry runs out.
ExpireAPIKey ==
    /\ \E k \in KeyIds :
          /\ environmentAPIKeyCache[k].hit
          /\ environmentAPIKeyCache' =
                [environmentAPIKeyCache EXCEPT ![k] = Entry(FALSE, NoEnvironmentAPIKey)]
    /\ call' = NoCall
    /\ UNCHANGED <<featuresCache, segmentUsersCache, persisterVars, notificationVars>>

ExpireSegmentUsers ==
    /\ \E sid \in SegmentIdNames :
          /\ segmentUsersCache[sid].hit
          /\ segmentUsersCache' = [segmentUsersCache EXCEPT ![sid] = Entry(FALSE, {})]
    /\ call' = NoCall
    /\ UNCHANGED <<environmentAPIKeyCache, featuresCache, persisterVars, notificationVars>>

ExpireFeatures ==
    /\ featuresCache["ns0"].hit
    /\ featuresCache' = [featuresCache EXCEPT !["ns0"] = Entry(FALSE, <<>>)]
    /\ call' = NoCall
    /\ UNCHANGED <<environmentAPIKeyCache, segmentUsersCache, persisterVars, notificationVars>>

InitGateway ==
    /\ Init
    /\ postgresClient = FALSE

\* The evaluation endpoint with every request.
GetEvaluationsAny == CallGetEvaluations(GetEvaluationsRequests)

NextGateway ==
    \/ GetEvaluationsAny
    \/ ExpireAPIKey
    \/ ExpireFeatures

SpecGateway == InitGateway /\ [][NextGateway]_vars

\* The ingestion endpoint with every request.
RegisterEventsAny == CallRegisterEvents(RegisterEventsRequests)

NextEvents ==
    \/ RegisterEventsAny
    \/ ExpireAPIKey

SpecEvents == InitGateway /\ [][NextEvents]_vars

\* Both endpoints, each with the empty request and with one valid request:
\* what varies is the context, the API key and the caches.
AdmissionGetEvaluationsRequests ==
    {EmptyGetEvaluationsRequest,
     GetEvaluationsRequest("ios", User(FALSE, "user-id-0", {}), NoUserEvaluationsID)}

AdmissionRegisterEventsRequests ==
    {NoEvents, <<Event(EventIdNames[1], "GoalEvent")>>}

GetEvaluationsAdmission == CallGetEvaluations(AdmissionGetEvaluationsRequests)
RegisterEventsAdmission == CallRegisterEvents(AdmissionRegisterEventsRequests)

NextAdmission ==
    \/ GetEvaluationsAdmission
    \/ RegisterEventsAdmission
    \/ ExpireAPIKey
    \/ ExpireFeatures

SpecAdmission == InitGateway /\ [][NextAdmission]_vars

\* The evaluation of GetEvaluations: features with rules, segments, an
\* off-variation, without tags.
EvaluateFeatureOutcomes ==
    {[code |-> "OK", features |-> fs] :
        fs \in {NoSegmentList, <<TwoRules, Untagged>>, <<OffFeature, FeatureC2>>}}

EvaluateUsers ==
    {User(FALSE, "user-id-0", {}), User(FALSE, "user-id-0", {<<"a", "value-a">>})}

EvaluateRequests ==
    {GetEvaluationsRequest(t, u, NoUserEvaluationsID) :
        t \in {"android", "ios"}, u \in EvaluateUsers}

SegmentUserSets == {{}, {"user-id-0"}}

GetEvaluationsEvaluate ==
    CallGetEvaluationsOver(EvaluateRequests, EvaluateFeatureOutcomes, SegmentUserSets)

NextEvaluate ==
    \/ GetEvaluationsEvaluate
    \/ ExpireFeatures
    \/ ExpireSegmentUsers

SpecEvaluate == InitGateway /\ [][NextEvaluate]_vars

\* GetEvaluation and GetEvaluations with every shape of request, against
\* the features feature-id-1 and feature-id-2.
SingleFeatureOutcomes ==
    {[code |-> "OK", features |-> <<Feature1, Feature2>>],
     [code |-> "Unknown", features |-> <<>>]}

ValidatedUsers == {User(TRUE, "", {}), User(FALSE, "", {}), User(FALSE, "user-id-0", {})}

GetEvaluationRequests ==
    {GetEvaluationRequest(t, u, id) :
        t \in {"", "test"}, u \in ValidatedUsers,
        id \in {"", "feature-id-1", "feature-id-2", "feature-id-3"}}

ValidatedGetEvaluationsRequests ==
    {GetEvaluationsRequest(t, u, NoUserEvaluationsID) :
        t \in {"", "test"}, u \in ValidatedUsers}
      \cup {GetEvaluationsRequest("test", User(FALSE, "user-id-0", {}),
                                   UserEvaluationsID("user-id-0", {}, <<Feature1, Feature2>>))}

GetEvaluationAny ==
    CallGetEvaluation(GetEvaluationRequests, SingleFeatureOutcomes, SegmentUserSets)

GetEvaluationsValidated ==
    CallGetEvaluationsOver(ValidatedGetEvaluationsRequests, SingleFeatureOutcomes,
                           SegmentUserSets)

NextEvaluation ==
    \/ GetEvaluationAny
    \/ GetEvaluationsValidated
    \/ ExpireAPIKey
    \/ ExpireFeatures
    \/ ExpireSegmentUsers

SpecEvaluation == InitGateway /\ [][NextEvaluation]_vars

\* ================================================================ claims
Sent == last.sent
SR == last.send
Superseded == {m \in Mids : replacedBy[m] # 0}
Held(w) == {batch[w][id].mid : id \in DOMAIN batch[w]}
Flushed == {SR.messages[id].mid : id \in DOMAIN SR.messages}
Written == UNION {wr.mids : wr \in SR.writes}
WrittenRecords == UNION {{<<wr.environmentNamespace, id>> : id \in DOMAIN wr.evs} : wr \in SR.writes}

\* C1: in Persister.send every message of the flushed batch is settled by
\* the ack policy and by nothing else: an id outside the failure map gives
\* one Ack and one OK increment, repeatable=true one Nack and one
\* RepeatableError increment, repeatable=false one Ack and one
\* NonRepeatableError increment; no other counter changes for the message.
\* (Stated for the flushes that reach the ack loop.)
C1_AckPolicySettlesEveryMessage ==
    (Sent /\ ~SR.early) =>
        \A id \in DOMAIN SR.messages :
            SR.log[id] =
              << IF id \notin DOMAIN SR.fails THEN <<"Ack", OK>>
                 ELSE IF SR.fails[id] THEN <<"Nack", RepeatableError>>
                 ELSE <<"Ack", NonRepeatableError>> >>

\* C2: a message arriving under an id already in the worker's batch gets the
\* stored message Acked (once, DuplicateID counter) and takes its place, the
\* batch keeping its size; at flush the two messages give one record and one
\* final Ack: the superseded message is not part of the flush, and the
\* message that replaced it, when its record is written and the datastore
\* reports no failure, has exactly one record under its id and exactly one
\* Ack (OK).
C2_Deduplication ==
    /\ (last.act = "recv" /\ last.msg.id \in DOMAIN last.before) =>
          /\ ~Sent
          /\ DOMAIN batch[last.w] = DOMAIN last.before
          /\ batch[last.w][last.msg.id] = last.msg
          /\ settled[last.before[last.msg.id].mid] = <<<<"Ack", DuplicateID>>>>
          /\ replacedBy[last.before[last.msg.id].mid] = last.msg.mid
    /\ \A m \in Superseded :
          /\ settled[m] = <<<<"Ack", DuplicateID>>>>
          /\ \A w \in Workers : m \notin Held(w)
          /\ Sent => m \notin Flushed
    /\ Sent =>
          \A id \in DOMAIN SR.messages :
             LET n == SR.messages[id].mid IN
             (n \in {replacedBy[m] : m \in Superseded} /\ n \in Written
                /\ id \notin DOMAIN SR.fails) =>
                  /\ Cardinality({r \in WrittenRecords : r[2] = id}) = 1
                  /\ settled[n] = <<<<"Ack", OK>>>>

C2_Witness ==
    /\ Sent
    /\ \E id \in DOMAIN SR.messages :
          /\ SR.messages[id].mid \in {replacedBy[m] : m \in Superseded}
          /\ SR.messages[id].mid \in Written
          /\ id \notin DOMAIN SR.fails

\* C3: in a flush a message whose payload does not decode is Acked once with
\* the BadMessage counter and is out of the batch from then on: it is not
\* written, the ack-policy loop does not Ack or Nack it again and it gets no
\* OK / RepeatableError / NonRepeatableError increment, whether or not the
\* batch also holds decodable messages.
C3_UndecodableSettledOnce ==
    Sent =>
        \A id \in SR.bad :
            /\ SR.log[id] = <<<<"Ack", BadMessage>>>>
            /\ SR.messages[id].mid \notin Written

\* C4: a worker that returns because the root context is cancelled or the
\* puller channel is closed has flushed its batch first: no worker has
\* exited while holding a message that was neither Acked nor Nacked.
C4_NoExitHoldingMessages ==
    \A w \in Workers :
        wPc[w] = "done" => \A m \in Held(w) : settled[m] # <<>>

\* C5: Stop cancels the root context and returns only after Run has
\* returned, that is after the puller goroutine and all workers have exited.
C5_StopWaitsForRun ==
    /\ stopPc # "idle" => ctxDone
    /\ stopPc = "returned" =>
          /\ runPc = "returned"
          /\ pullerPc = "done"
          /\ \A w \in Workers : wPc[w] = "done"

C5_Witness == stopPc = "returned"

\* C6: a worker calls send exactly when an insert brings the number of
\* distinct ids in its batch to flushSize, or when the timer fires on a
\* non-empty batch; a tick on an empty batch sends nothing; after a flush
\* the batch is empty; so a waiting worker holds fewer than flushSize
\* messages.
C6_FlushExactlyWhen ==
    /\ last.act = "recv" =>
          (Sent <=> (last.msg.id # EmptyId /\
                     Cardinality(DOMAIN last.before \cup {last.msg.id}) = FlushSize))
    /\ last.act = "timer" => (Sent <=> DOMAIN last.before # {})
    /\ last.act \notin {"recv", "timer"} => ~Sent
    /\ Sent =>
          /\ batch[last.w] = EmptyMap
          /\ SR.messages = (IF last.act = "recv"
                            THEN (last.msg.id :> last.msg) @@ last.before
                            ELSE last.before)
    /\ \A w \in Workers : Cardinality(DOMAIN batch[w]) < FlushSize

C6_Witness ==
    /\ last.act = "recv"
    /\ Sent
    /\ Cardinality(DOMAIN SR.messages) = FlushSize

\* C8: a received message whose id attribute is missing or empty is Acked at
\* once (MissingID counter) and dropped: it enters no batch, takes part in
\* no flush, is never written and is never Acked or Nacked again.
C8_MissingIdDropped ==
    /\ (last.act = "recv" /\ last.msg.id = EmptyId) =>
          /\ ~Sent
          /\ batch[last.w] = last.before
          /\ settled[last.msg.mid] = <<<<"Ack", MissingID>>>>
    /\ \A w \in Workers : EmptyId \notin DOMAIN batch[w]
    /\ Sent => EmptyId \notin DOMAIN SR.messages
    /\ \A m \in Mids :
          (settled[m] # <<>> /\ settled[m][1][2] = MissingID) =>
              /\ Len(settled[m]) = 1
              /\ \A w \in Workers : m \notin Held(w)
              /\ Sent => (m \notin Flushed /\ m \notin Written)

C8_Witness ==
    /\ Sent
    /\ \E m \in Mids : settled[m] = <<<<"Ack", MissingID>>>>


\* The k-th message has just been received, all k messages so far carried a
\* non-empty id and none of them was flushed before this step: each is in
\* the batch (with the new one inserted) or was superseded by a duplicate.
FirstBatch(k) ==
    /\ last.act = "recv"
    /\ last.msg.mid = k
    /\ last.msg.id # EmptyId
    /\ Cardinality(DOMAIN last.before \cup {last.msg.id}) + Cardinality(Superseded) = k

CleanFlush == SR.bad = {} /\ DOMAIN SR.fails = {}

\* C7 as claimed (flushSize scaled from 50 to FlushSize): the FlushSize-th
\* message with a non-empty id triggers an immediate flush; if two of these
\* messages share an id, that flush writes FlushSize - 1 records and all
\* FlushSize messages are Acked.
C7_FlushOnFiftiethMessage ==
    FirstBatch(FlushSize) =>
        /\ Sent
        /\ (Cardinality(Superseded) = 1 /\ CleanFlush) =>
              /\ Cardinality(WrittenRecords) = FlushSize - 1
              /\ \A m \in 1..FlushSize : Len(settled[m]) = 1 /\ settled[m][1][1] = "Ack"

\* C7 (amended): the FlushSize-th message triggers the flush only if the
\* FlushSize ids are distinct, and a message arriving in the empty batch
\* after it waits for the timer.  If ids repeat among the first FlushSize
\* messages, each superseded message is Acked on arrival, no flush is
\* triggered and the batch holds the distinct ids unsettled; with one
\* repeated id the next message with a new id triggers the flush, with
\* FlushSize records when all decode and none fails.
C7_FlushOnFiftiethDistinctId ==
    /\ FirstBatch(FlushSize) =>
          /\ Sent <=> Superseded = {}
          /\ Sent =>
                /\ Cardinality(DOMAIN SR.messages) = FlushSize
                /\ CleanFlush =>
                      /\ Cardinality(WrittenRecords) = FlushSize
                      /\ \A m \in 1..FlushSize : settled[m] = <<<<"Ack", OK>>>>
          /\ ~Sent =>
                /\ Cardinality(DOMAIN batch[last.w]) = FlushSize - Cardinality(Superseded)
                /\ \A m \in Superseded : settled[m] = <<<<"Ack", DuplicateID>>>>
                /\ \A m \in Held(last.w) : settled[m] = <<>>
    /\ (last.act = "recv" /\ last.msg.mid = FlushSize + 1 /\ last.msg.id # EmptyId
          /\ DOMAIN last.before = {}) =>
          /\ ~Sent
          /\ batch[last.w] = (last.msg.id :> last.msg)
          /\ settled[last.msg.mid] = <<>>
    /\ (Sent /\ Cardinality(DOMAIN SR.messages) < FlushSize) => last.act = "timer"
    /\ (FirstBatch(FlushSize + 1) /\ Cardinality(Superseded) = 1) =>
          /\ Sent
          /\ Cardinality(DOMAIN SR.messages) = FlushSize
          /\ CleanFlush =>
                /\ Cardinality(WrittenRecords) = FlushSize
                /\ \A m \in Superseded : settled[m] = <<<<"Ack", DuplicateID>>>>
                /\ \A m \in Mids \ Superseded : settled[m] = <<<<"Ack", OK>>>>

C7_Witness ==
    /\ FirstBatch(FlushSize + 1)
    /\ Cardinality(Superseded) = 1
    /\ Sent
    /\ CleanFlush


\* The goal events of the flush just made, with the outcomes of their calls.
GoalCalls == IF Sent THEN {c \in SR.calls : c.event.kind = "GoalEvent"} ELSE {}
IsWritten(c) ==
    \E wr \in SR.writes :
        /\ wr.environmentNamespace = c.environmentNamespace
        /\ c.id \in DOMAIN wr.evs
        /\ wr.evs[c.id] = c.marshal.json
Enriched(c, ue) ==
    /\ c.marshal.err = Nil
    /\ c.marshal.json.evaluations = FormatEvaluations(ue)
    /\ IsWritten(c)
RetriableFailure(c) ==
    /\ c.marshal.err # Nil
    /\ c.marshal.repeatable
    /\ ~IsWritten(c)
    /\ c.mid \notin Written
    /\ SR.log[c.from] = <<<<"Nack", RepeatableError>>>>

\* C9: for a goal event with sourceId GOAL_BATCH, whatever its tag: a
\* successful stored-evaluations lookup supplies the evaluations and
\* EvaluateFeatures is not called; KeyNotFound makes the persister call
\* EvaluateFeatures once and use its result; any other lookup error makes the
\* event a retriable failure: nothing is written for it and its message is
\* Nacked.
C9_GoalBatchEnrichment ==
    \A c \in GoalCalls :
        c.event.sourceId = GOAL_BATCH =>
            /\ c.marshal.reads = 1
            /\ c.oracle.stor = "ok" =>
                  Enriched(c, StoredEvaluations) /\ c.marshal.rpcs = 0
            /\ c.oracle.stor = ErrKeyNotFound =>
                  /\ c.marshal.rpcs = 1
                  /\ c.oracle.rpc = "ok" => Enriched(c, EvaluatedEvaluations)
            /\ c.oracle.stor \notin {"ok", ErrKeyNotFound} =>
                  RetriableFailure(c) /\ c.marshal.rpcs = 0

C9_Witness ==
    \E c \in GoalCalls :
        /\ c.event.sourceId = GOAL_BATCH
        /\ c.event.tag = ""
        /\ c.oracle.stor = ErrInternal
        /\ SR.log[c.from] = <<<<"Nack", RepeatableError>>>>

\* C10: for a goal event with another sourceId: with an empty tag the
\* evaluations of the event itself are used and storage is not read (on
\* either path); otherwise the stored evaluations are looked up, a
\* successful lookup supplies them, KeyNotFound gives an empty list with
\* which the event is still written, its message being Acked as OK when the
\* datastore reports no failure for it, and any other lookup error makes the
\* event a retriable failure: message Nacked, nothing written for it.
C10_OtherSourceEnrichment ==
    \A c \in GoalCalls :
        c.event.sourceId # GOAL_BATCH =>
            /\ c.marshal.rpcs = 0 /\ c.row.rpcs = 0
            /\ c.event.tag = "" =>
                  /\ Enriched(c, c.event.evaluations)
                  /\ c.marshal.reads = 0 /\ c.row.reads = 0
            /\ (c.event.tag # "" /\ c.oracle.stor = "ok") =>
                  Enriched(c, StoredEvaluations) /\ c.marshal.reads = 1
            /\ (c.event.tag # "" /\ c.oracle.stor = ErrKeyNotFound) =>
                  /\ Enriched(c, <<>>)
                  /\ c.marshal.reads = 1
                  /\ c.oracle.ds = "ok" => SR.log[c.from] = <<<<"Ack", OK>>>>
            /\ (c.event.tag # "" /\ c.oracle.stor \notin {"ok", ErrKeyNotFound}) =>
                  RetriableFailure(c)

C10_Witness ==
    \E c \in GoalCalls :
        /\ c.event.sourceId # GOAL_BATCH
        /\ c.event.tag # ""
        /\ c.oracle.stor = ErrKeyNotFound
        /\ IsWritten(c)
        /\ c.marshal.json.evaluations = <<>>
        /\ SR.log[c.from] = <<<<"Ack", OK>>>>


\* The outcomes `oracle` with every call of the row-store path succeeding.
RowsSucceed(oracle) ==
    [id \in DOMAIN oracle |->
        [oracle[id] EXCEPT !.stor2 = "ok", !.rpc2 = "ok", !.row = "ok"]]

SettlementOf(sr) ==
    [log |-> sr.log, fails |-> sr.fails,
     records |-> {<<wr.environmentNamespace, wr.evs>> : wr \in sr.writes}]

RowFailures == IF Sent /\ postgresClient
               THEN {c \in SR.calls : c.row.err # Nil} ELSE {}

\* C11: with a row-store client configured, the outcome of createEvent has
\* no influence on the settlement: the Ack/Nack calls, the counters and the
\* records handed to the datastore of a flush are those of the same flush
\* with every row-store insert succeeding; an event whose insert failed and
\* whose record the datastore accepted is Acked as OK.
C11_RowStoreNeverSettles ==
    /\ (Sent /\ postgresClient /\ ~SR.early) =>
          SettlementOf(SR) =
            SettlementOf(send(SR.messages, SR.in[1], SR.in[2],
                              RowsSucceed(SR.in[3]), TRUE, SR.in[4]))
    /\ \A c \in RowFailures :
          (c.marshal.err = Nil /\ c.oracle.ds = "ok") =>
              IsWritten(c) /\ SR.log[c.from] = <<<<"Ack", OK>>>>

C11_Witness ==
    \E c \in RowFailures :
        /\ c.event.kind = "GoalEvent"
        /\ c.oracle.row = ErrInternal
        /\ IsWritten(c)
        /\ SR.log[c.from] = <<<<"Ack", OK>>>>


Checked == last.act = "Check"

\* C12: Check returns Healthy exactly when the root context is not cancelled
\* and neither the puller goroutine nor a worker has finished, and Unhealthy
\* in every other state; once Stop has been called it returns Unhealthy.
C12_HealthyIffLiveAndNoneFinished ==
    Checked =>
        /\ last.send.status \in {Healthy, Unhealthy}
        /\ last.send.status = Healthy <=>
              (/\ ~ctxDone
               /\ pullerPc # "done"
               /\ \A w \in Workers : wPc[w] # "done")
        /\ stopPc # "idle" => last.send.status = Unhealthy

\* Check is called while the context is live and the puller has returned.
C12_Witness ==
    /\ Checked
    /\ ~ctxDone
    /\ pullerPc = "done"
    /\ last.send.status = Unhealthy


\* ------------------------------------------------------ gateway claims
Requested == call.method # "none"
IsGetEvaluations == call.method = "GetEvaluations"
IsRegisterEvents == call.method = "RegisterEvents"

\* The admission of the call just made, and the key it resolved.
Admission == checkRequest(call.ctx, call.before.environmentAPIKeyCache, call.o.account)
Admitted == Admission.err = Nil
CountCalls(name) == Cardinality(Calls(call.trace, name))
CacheUntouched ==
    /\ environmentAPIKeyCache = call.before.environmentAPIKeyCache
    /\ featuresCache = call.before.featuresCache

\* C13: a call of GetEvaluations or RegisterEvents whose context is already
\* cancelled returns ErrContextCanceled and no response, whether or not it
\* carries an API key, and makes no cache, RPC, storage or publisher call.
C13_CancelledBeforeAnyWork ==
    (Requested /\ call.ctx.canceled) =>
        /\ call.err = ErrContextCanceled
        /\ call.resp.nil
        /\ call.trace = <<>>
        /\ CacheUntouched

\* a cancelled request without API key
C13_Witness ==
    /\ IsRegisterEvents
    /\ call.ctx.canceled
    /\ extractAPIKeyID(call.ctx).err = ErrMissingAPIKey
    /\ call.err = ErrContextCanceled

\* The key the admission looked at: the cached one, or the origin's answer.
Presented == extractAPIKeyID(call.ctx)
Resolved ==
    IF call.before.environmentAPIKeyCache[Presented.key].hit
    THEN call.before.environmentAPIKeyCache[Presented.key].value
    ELSE call.o.account.key
HasResolved ==
    /\ Requested
    /\ ~call.ctx.canceled
    /\ Presented.err = Nil
    /\ (call.before.environmentAPIKeyCache[Presented.key].hit \/ call.o.account.code = "OK")

\* C14: a request (not cancelled) without authorization metadata, with an
\* empty authorization list or with an empty key fails with
\* ErrMissingAPIKey; a resolved key of another role than the required one
\* (SDK) fails with ErrBadRole, whatever its flags; a key of the required
\* role with disabled or environmentDisabled set fails with
\* ErrDisabledAPIKey; a call is admitted only with a key of the required
\* role and neither flag set, and such a key is admitted.
C14_AdmissionMatrix ==
    (Requested /\ ~call.ctx.canceled) =>
        /\ (\/ ~call.ctx.md
            \/ ~call.ctx.has
            \/ call.ctx.authorization = <<>>
            \/ call.ctx.authorization[1] = "") => call.err = ErrMissingAPIKey
        /\ HasResolved =>
              /\ Resolved.apiKey.role # APIKey_SDK => call.err = ErrBadRole
              /\ (Resolved.apiKey.role = APIKey_SDK
                    /\ (Resolved.apiKey.disabled \/ Resolved.environmentDisabled)) =>
                      call.err = ErrDisabledAPIKey
              /\ (Resolved.apiKey.role = APIKey_SDK /\ ~Resolved.apiKey.disabled
                    /\ ~Resolved.environmentDisabled) => Admitted
        /\ Admitted =>
              /\ HasResolved
              /\ Resolved = EnvironmentAPIKey(APIKey_SDK, FALSE, FALSE)
              /\ call.err \notin {ErrMissingAPIKey, ErrBadRole, ErrDisabledAPIKey,
                                  ErrInvalidAPIKey}

\* a disabled key of the wrong role
C14_Witness ==
    /\ HasResolved
    /\ Resolved = EnvironmentAPIKey(APIKey_SERVICE, TRUE, FALSE)
    /\ call.err = ErrBadRole

\* The cache lookups of the call just made.
LooksUpAPIKey == Requested /\ CountCalls("environmentAPIKeyCache.Get") > 0
LooksUpFeatures == Requested /\ CountCalls("featuresCache.Get") > 0
PutArgs(name) == {call.trace[i][2] : i \in Calls(call.trace, name)}

\* C15: both caches are read through, nothing negative is cached.  On a
\* hit the cached value is used and the origin is not called; on a miss the
\* origin is called once; its answer is put into the cache by one Put; an
\* origin failure (NotFound for an API key gives ErrInvalidAPIKey, any other
\* failure ErrInternal) puts nothing into the cache.
C15_ReadThroughNoNegativeCaching ==
    /\ LooksUpAPIKey =>
          LET k == Presented.key
              hit == call.before.environmentAPIKeyCache[k].hit
              rpcs == CountCalls("accountClient.GetAPIKeyBySearchingAllEnvironments")
              puts == CountCalls("environmentAPIKeyCache.Put")
          IN /\ CountCalls("environmentAPIKeyCache.Get") = 1
             /\ hit => /\ rpcs = 0 /\ puts = 0
                       /\ Admission.key = call.before.environmentAPIKeyCache[k].value
                       /\ environmentAPIKeyCache = call.before.environmentAPIKeyCache
             /\ ~hit => rpcs = 1
             /\ (~hit /\ call.o.account.code = "OK") =>
                   /\ puts = 1
                   /\ PutArgs("environmentAPIKeyCache.Put") = {call.o.account.key}
                   /\ environmentAPIKeyCache[k] = Entry(TRUE, call.o.account.key)
             /\ (~hit /\ call.o.account.code = "NotFound") =>
                   call.err = ErrInvalidAPIKey
             /\ (~hit /\ call.o.account.code \notin {"OK", "NotFound"}) =>
                   call.err = ErrInternal
             /\ (~hit /\ call.o.account.code # "OK") =>
                   /\ puts = 0
                   /\ call.resp.nil
                   /\ CacheUntouched
    /\ LooksUpFeatures =>
          LET hit == call.before.featuresCache["ns0"].hit
              rpcs == CountCalls("featureClient.ListFeatures")
              puts == CountCalls("featuresCache.Put")
          IN /\ CountCalls("featuresCache.Get") = 1
             /\ hit => /\ rpcs = 0 /\ puts = 0
                       /\ call.loaded = call.before.featuresCache["ns0"].value
                       /\ featuresCache = call.before.featuresCache
             /\ ~hit => rpcs = 1
             /\ (~hit /\ call.o.features.code = "OK") =>
                   /\ puts = 1
                   /\ PutArgs("featuresCache.Put") = {call.o.features.features}
                   /\ featuresCache["ns0"] = Entry(TRUE, call.o.features.features)
                   /\ call.loaded = call.o.features.features
             /\ (~hit /\ call.o.features.code # "OK") =>
                   /\ call.err = ErrInternal
                   /\ puts = 0
                   /\ call.resp.nil
                   /\ featuresCache = call.before.featuresCache

\* the account service answers NotFound on a miss
C15_Witness ==
    /\ LooksUpAPIKey
    /\ ~call.before.environmentAPIKeyCache[Presented.key].hit
    /\ call.o.account.code = "NotFound"
    /\ call.err = ErrInvalidAPIKey
    /\ ~environmentAPIKeyCache[Presented.key].hit

\* A call of GetEvaluations that answered for a non-empty feature list.
Evaluated == IsGetEvaluations /\ call.err = Nil /\ call.loaded # <<>>

\* C16: for an admitted, valid GetEvaluations request against a non-empty
\* feature list, every response has state FULL and carries the id computed
\* for the user and the loaded features; it has no evaluations (nil) when
\* the request's id equals that id and has evaluations when the request's
\* id is absent or different.
C16_ShortCircuitOnSameId ==
    /\ Evaluated =>
          /\ ~call.resp.nil
          /\ call.resp.state = UserEvaluations_FULL
          /\ call.resp.userEvaluationsId =
                UserEvaluationsID(call.req.user.id, call.req.user.data, call.loaded)
          /\ call.resp.evaluations.nil <=>
                (call.req.userEvaluationsId = call.resp.userEvaluationsId)
    /\ (IsGetEvaluations /\ Admitted /\ validateGetEvaluationsRequest(call.req) = Nil
          /\ call.loaded # <<>> /\ call.err # Nil) =>
              /\ call.err = ErrInternal
              /\ call.o.evaluate # "OK"
              /\ call.req.userEvaluationsId #
                    UserEvaluationsID(call.req.user.id, call.req.user.data, call.loaded)

C16_Witness ==
    /\ Evaluated
    /\ call.req.userEvaluationsId # NoUserEvaluationsID
    /\ call.req.userEvaluationsId = call.resp.userEvaluationsId
    /\ call.resp.evaluations.nil

\* The id over the features left by the tag filter.
UserEvaluationsIDByTag(user, features, tag) ==
    UserEvaluationsID(user.id, user.data, SelectSeq(features, LAMBDA f : tag \in f.tags))

\* C17: the id that GetEvaluations compares with the request's id and
\* returns is computed over the features that carry the request's tag:
\* features with other tags do not contribute to it.
C17_IdOverFeaturesOfTheTag ==
    Evaluated =>
        /\ call.resp.userEvaluationsId =
              UserEvaluationsIDByTag(call.req.user, call.loaded, call.req.tag)
        /\ call.resp.evaluations.nil <=>
              (call.req.userEvaluationsId =
                  UserEvaluationsIDByTag(call.req.user, call.loaded, call.req.tag))

\* The calls of the four publishers and of the user evaluation storage in
\* the trace of the call just made.
PublisherNames == {PublisherOf(t) : t \in RoutedTypes}
PublishCalls == UNION {Calls(call.trace, p) : p \in PublisherNames}
UpsertCalls == Calls(call.trace, "userEvaluationStorage.UpsertUserEvaluation")
EventIds == {call.req[i].id : i \in DOMAIN call.req}

\* C18: an admitted RegisterEvents call with zero events fails with
\* ErrMissingEvents, one with an event without id fails with
\* ErrMissingEventID; both return no response, call no publisher and upsert
\* no user evaluation.
C18_MissingEventsFailTheCall ==
    (IsRegisterEvents /\ Admitted) =>
        /\ Len(call.req) = 0 => call.err = ErrMissingEvents
        /\ (\E i \in DOMAIN call.req : call.req[i].id = "") =>
              call.err = ErrMissingEventID
        /\ call.err \in {ErrMissingEvents, ErrMissingEventID} =>
              /\ call.resp.nil
              /\ PublishCalls = {}
              /\ UpsertCalls = {}

\* an evaluation event with id, followed by an event without id
C18_Witness ==
    /\ IsRegisterEvents /\ Admitted
    /\ Len(call.req) = 2
    /\ call.req[1].type = "EvaluationEvent" /\ call.req[1].id # ""
    /\ call.req[2].id = ""
    /\ call.err = ErrMissingEventID

\* An admitted call of RegisterEvents whose events all have ids.
Accepted == IsRegisterEvents /\ Admitted /\ validateEvents(call.req) = Nil
UnknownType(i) == call.req[i].type \notin RoutedTypes
UpsertFailed(i) == call.req[i].type = "EvaluationEvent" /\ call.o.upsert[i] # "OK"
ErrorsOf(id) == {e \in call.resp.errors : e.id = id}

PublishedBy(p) == UNION {call.trace[i][2] : i \in Calls(call.trace, p)}
HandedToPublisher == UNION {PublishedBy(p) : p \in PublisherNames}

\* C20: in an accepted RegisterEvents call every event ends either
\* published, without entry in the errors map, or with an entry and not
\* handed to any publisher; each publisher gets at most one PublishMulti
\* call, with exactly the events of its type that have no entry.
C20_EventEndsPublishedOrRejected ==
    Accepted =>
        /\ \A i \in DOMAIN call.req :
              LET id == call.req[i].id
              IN /\ (id \in HandedToPublisher) <=> (ErrorsOf(id) = {})
                 /\ Cardinality(ErrorsOf(id)) <= 1
                 /\ id \in HandedToPublisher =>
                       /\ ~UnknownType(i)
                       /\ id \in PublishedBy(PublisherOf(call.req[i].type))
                       /\ \A p \in PublisherNames \ {PublisherOf(call.req[i].type)} :
                             id \notin PublishedBy(p)
        /\ \A t \in RoutedTypes :
              LET valid == {call.req[i].id :
                              i \in {j \in DOMAIN call.req :
                                       /\ call.req[j].type = t
                                       /\ ~UpsertFailed(j)}}
              IN /\ CountCalls(PublisherOf(t)) <= 1
                 /\ PublishedBy(PublisherOf(t)) = valid
                 /\ CountCalls(PublisherOf(t)) = 1 <=> valid # {}

\* a failed upsert next to a published goal event
C20_Witness ==
    /\ Accepted
    /\ \E i, j \in DOMAIN call.req :
          /\ UpsertFailed(i)
          /\ call.req[j].type = "GoalEvent"
          /\ call.req[j].id \in PublishedBy("goalPublisher.PublishMulti")
          /\ call.req[i].id \notin HandedToPublisher

\* --------------------------------------------- enrichment, writes, timer
\* C26: for a goal event with sourceId GOAL_BATCH whose stored-evaluations
\* lookup returns KeyNotFound and whose EvaluateFeatures call fails, the
\* event is saved with no evaluations: its record is written with an empty
\* evaluations list and its message is Acked as OK (the datastore reporting
\* no failure for it).
C26_BothSourcesFailSavesWithoutEvaluations ==
    \A c \in GoalCalls :
        (/\ c.event.sourceId = GOAL_BATCH
         /\ c.oracle.stor = ErrKeyNotFound
         /\ c.oracle.rpc # "ok") =>
            /\ Enriched(c, <<>>)
            /\ SR.log[c.from] = <<<<"Ack", OK>>>>

\* The environments of the flush just made, the events of each and those
\* that marshalled.
FlushEnvs == IF Sent /\ ~SR.early THEN DOMAIN SR.envEvents ELSE {}
Marshalled(env) ==
    {c.id : c \in {d \in SR.calls : d.environmentNamespace = env /\ d.marshal.err = Nil}}
WritesOf(env) == {wr \in SR.writes : wr.environmentNamespace = env}

\* C28: in one flush datastore.Write is called once for each environment
\* that has a marshalled record, with exactly the marshalled records of that
\* environment; an event whose marshalling failed is in no Write, and an
\* environment without marshalled record gets no Write.
C28_OneWritePerEnvironment ==
    /\ \A env \in FlushEnvs :
          /\ DOMAIN SR.envEvents[env] = {c.id : c \in {d \in SR.calls :
                                                    d.environmentNamespace = env}}
          /\ Marshalled(env) # {} =>
                /\ Cardinality(WritesOf(env)) = 1
                /\ \A wr \in WritesOf(env) :
                      /\ DOMAIN wr.evs = Marshalled(env)
                      /\ \A c \in SR.calls :
                            (c.environmentNamespace = env /\ c.id \in Marshalled(env)) =>
                                wr.evs[c.id] = c.marshal.json
          /\ Marshalled(env) = {} => WritesOf(env) = {}
    /\ Sent => \A wr \in SR.writes : wr.environmentNamespace \in FlushEnvs

\* one environment with a record and a failed event, another without record
C28_Witness ==
    /\ Sent
    /\ \E e1, e2 \in FlushEnvs :
          /\ e1 # e2
          /\ Marshalled(e1) # {}
          /\ Marshalled(e2) = {}
          /\ Cardinality(WritesOf(e1)) = 1
          /\ WritesOf(e2) = {}

\* C27: every flush resets the worker's timer: right after a flush of a
\* worker, size-triggered or timer-triggered, no expiry of its timer from
\* before the flush is pending, so that the next timer-triggered flush
\* comes a whole flushInterval later; also when the timer had expired
\* before the size-triggered flush was chosen.
C27_TimerResetOnEveryFlush ==
    (Sent /\ last.act \in {"recv", "timer"}) => ~timerC[last.w]

\* ------------------------------------------------- evaluation endpoints
\* An admitted, valid GetEvaluations call that loaded the features.
Loaded ==
    /\ IsGetEvaluations /\ Admitted
    /\ validateGetEvaluationsRequest(call.req) = Nil
    /\ CountCalls("featuresCache.Get") = 1
    /\ (call.before.featuresCache["ns0"].hit \/ call.o.features.code = "OK")

\* C29: when the environment has no features, an admitted, valid
\* GetEvaluations call succeeds with state FULL, nil evaluations and an
\* empty userEvaluationsId, whatever id the request carried.
C29_ZeroFeatures ==
    (Loaded /\ call.loaded = <<>>) =>
        /\ call.err = Nil
        /\ ~call.resp.nil
        /\ call.resp.state = UserEvaluations_FULL
        /\ call.resp.evaluations.nil
        /\ call.resp.userEvaluationsId = NoUserEvaluationsID

\* the request carries the id of an earlier, non-empty feature list
C29_Witness ==
    /\ Loaded /\ call.loaded = <<>>
    /\ call.req.userEvaluationsId # NoUserEvaluationsID
    /\ call.err = Nil
    /\ call.resp.userEvaluationsId = NoUserEvaluationsID


\* ------------------------------------------------ validation of a request
IsGetEvaluation == call.method = "GetEvaluation"
IsEvaluationCall == IsGetEvaluations \/ IsGetEvaluation

\* The error the request's body asks for: tag, user, user id, and for
\* GetEvaluation the feature id, in this order.
BodyError ==
    IF call.req.tag = "" THEN ErrTagRequired
    ELSE IF call.req.user.nil THEN ErrUserRequired
    ELSE IF call.req.user.id = "" THEN ErrUserIDRequired
    ELSE IF IsGetEvaluation /\ call.req.featureId = "" THEN ErrFeatureIDRequired
    ELSE Nil

BodyErrors == {ErrTagRequired, ErrUserRequired, ErrUserIDRequired, ErrFeatureIDRequired}

EvaluationCallNames ==
    {"featuresCache.Get", "featureClient.ListFeatures", "featuresCache.Put",
     "segmentUsersCache.Get", "featureClient.ListSegmentUsers",
     "segmentUsersCache.Put", "userEvaluationStorage.UpsertUserEvaluation",
     "userPublisher.Publish"}

\* C22: a GetEvaluations or GetEvaluation call that fails admission returns
\* the admission error, whatever its body; an admitted call whose body is
\* invalid returns the first of ErrTagRequired (empty tag), ErrUserRequired
\* (no user), ErrUserIDRequired (empty user id), ErrFeatureIDRequired
\* (GetEvaluation with an empty feature id), returns no response, reads no
\* features, evaluates nothing, publishes no user event and leaves the
\* features and segment caches as they were; an admitted call with a valid
\* body returns none of these errors.
C22_ValidationOrderedAfterAdmission ==
    IsEvaluationCall =>
        /\ ~Admitted =>
              /\ call.err = Admission.err
              /\ call.err \notin BodyErrors
              /\ call.resp.nil
        /\ (Admitted /\ BodyError # Nil) =>
              /\ call.err = BodyError
              /\ call.resp.nil
              /\ \A n \in EvaluationCallNames : CountCalls(n) = 0
              /\ featuresCache = call.before.featuresCache
              /\ segmentUsersCache = call.before.segmentUsersCache
        /\ (Admitted /\ BodyError = Nil) => call.err \notin BodyErrors

\* GetEvaluation with tag and user but without feature id, while the
\* features are in the cache
C22_Witness ==
    /\ IsGetEvaluation /\ Admitted
    /\ call.req.tag # "" /\ ~call.req.user.nil /\ call.req.user.id # ""
    /\ call.req.featureId = ""
    /\ call.before.featuresCache["ns0"].hit
    /\ call.err = ErrFeatureIDRequired
    /\ CountCalls("featuresCache.Get") = 0


\* ---------------------------------------------------------- GetEvaluation
\* An admitted valid GetEvaluation call that got the feature list.
Single ==
    /\ IsGetEvaluation /\ Admitted /\ BodyError = Nil
    /\ CountCalls("featuresCache.Get") = 1
    /\ (call.before.featuresCache["ns0"].hit \/ call.o.features.code = "OK")

LoadedIds == {call.loaded[i].id : i \in DOMAIN call.loaded}
SegmentsFailed ==
    CountCalls("featureClient.ListSegmentUsers") > 0 /\ call.o.evaluate # "OK"
Upserted == {call.trace[i][2] : i \in UpsertCalls}

\* C21: a GetEvaluation call for a feature id that is not in the
\* environment's feature list fails with ErrFeatureNotFound, returns nothing
\* and upserts nothing; when the feature is there and is evaluated, the
\* evaluation is upserted exactly once, for the user, environment and tag of
\* the request; if the upsert succeeds the response carries that evaluation,
\* which is of the requested feature and user, and if it fails the call
\* returns ErrInternal and no response.  When the evaluation itself fails
\* nothing is upserted.
C21_SingleEvaluationUpsertedOnce ==
    Single =>
        /\ call.req.featureId \notin LoadedIds =>
              /\ call.err = ErrFeatureNotFound
              /\ call.resp.nil
              /\ UpsertCalls = {}
        /\ (call.req.featureId \in LoadedIds /\ SegmentsFailed) =>
              /\ call.err = ErrInternal
              /\ call.resp.nil
              /\ UpsertCalls = {}
        /\ (call.req.featureId \in LoadedIds /\ ~SegmentsFailed) =>
              /\ Cardinality(UpsertCalls) = 1
              /\ \A u \in Upserted :
                    /\ u[1] = call.req.user.id
                    /\ u[2] = Resolved.environmentNamespace
                    /\ u[3] = call.req.tag
                    /\ Len(u[4]) = 1
                    /\ u[4][1].featureId = call.req.featureId
                    /\ u[4][1].userId = call.req.user.id
                    /\ call.o.upsert = "OK" =>
                          /\ call.err = Nil
                          /\ ~call.resp.nil
                          /\ call.resp.evaluation = u[4]
                    /\ call.o.upsert # "OK" =>
                          /\ call.err = ErrInternal
                          /\ call.resp.nil

\* the evaluation of feature-id-2 is made and its upsert fails
C21_Witness ==
    /\ Single
    /\ call.req.featureId = "feature-id-2"
    /\ ~SegmentsFailed
    /\ call.o.upsert # "OK"
    /\ Cardinality(UpsertCalls) = 1
    /\ call.err = ErrInternal
    /\ call.resp.nil


\* ------------------------------------------------------- tags, rules, segments
\* A GetEvaluations call that returned evaluations.
Answered == Evaluated /\ ~call.resp.evaluations.nil
Answers == call.resp.evaluations.evaluations

\* The features of the loaded list that have the request's tag or no tag.
Selected ==
    SelectSeq(call.loaded, LAMBDA f : f.tags = {} \/ call.req.tag \in f.tags)

\* C23: the evaluations of a GetEvaluations response are those of the
\* loaded features whose tags contain the request's tag or that have no
\* tag, one for each, in the order of the feature list, and for the
\* request's user; tag "ios" against feature-a, feature-b (android),
\* feature-c, feature-d (ios) gives the evaluations of feature-c and
\* feature-d, state FULL and a non-empty id.
C23_TagFilterKeepsOrder ==
    Answered =>
        /\ Len(Answers) = Len(Selected)
        /\ \A i \in DOMAIN Answers :
              /\ Answers[i].featureId = Selected[i].id
              /\ Answers[i].featureVersion = Selected[i].version
              /\ Answers[i].userId = call.req.user.id
        /\ (call.loaded = NoSegmentList /\ call.req.tag = "ios") =>
              /\ [i \in DOMAIN Answers |-> Answers[i].variationId] = <<"vID3", "vID4">>
              /\ call.resp.state = UserEvaluations_FULL
              /\ call.resp.userEvaluationsId # NoUserEvaluationsID

\* the four features of the example, asked for with tag "ios"
C23_Witness ==
    /\ Answered
    /\ call.loaded = NoSegmentList /\ call.req.tag = "ios"
    /\ Len(Answers) = 2
    /\ Answers[1].featureId = "feature-c" /\ Answers[2].featureId = "feature-d"


\* The users of the segment as the evaluation of the call got them.
SegmentUsersSeen ==
    [sid \in SegmentIdNames |->
        IF call.o.segmentGet = "OK" /\ call.before.segmentUsersCache[sid].hit
        THEN call.before.segmentUsersCache[sid].value
        ELSE call.o.segmentUsers]

\* The rules of the feature all of whose clauses match the request's user.
Matching(f) ==
    {j \in DOMAIN f.rules : ruleMatches(f.rules[j], call.req.user, SegmentUsersSeen)}

\* C24: in a GetEvaluations response the evaluation of an enabled feature
\* has the variation of the first of its rules all of whose clauses match
\* the user, with reason RULE and that rule's id, or, when no rule matches,
\* the variation of the default strategy with reason DEFAULT; the
\* evaluation of a feature that is not enabled has the feature's
\* off-variation, with reason OFF_VARIATION.
C24_RuleOrderDefaultAndOff ==
    Answered =>
        \A i \in DOMAIN Answers :
            LET f == Selected[i]
                e == Answers[i]
            IN IF ~f.enabled
               THEN /\ e.variationId = f.offVariation
                    /\ e.reason.type = Reason_OFF_VARIATION
               ELSE IF Matching(f) = {}
               THEN /\ e.variationId = f.defaultVariation
                    /\ e.reason.type = Reason_DEFAULT
               ELSE \E j \in Matching(f) :
                       /\ \A k \in Matching(f) : j <= k
                       /\ e.variationId = f.rules[j].variation
                       /\ e.reason = Reason(Reason_RULE, f.rules[j].id)


\* A GetEvaluations call that came to evaluate features with a SEGMENT
\* clause.
NeedsSegmentUsers ==
    /\ Loaded /\ call.loaded # <<>>
    /\ call.req.userEvaluationsId #
          UserEvaluationsID(call.req.user.id, call.req.user.data, call.loaded)
    /\ ListSegmentIDs(call.loaded, call.req.tag) # {}

SegmentCached(sid) ==
    call.o.segmentGet = "OK" /\ call.before.segmentUsersCache[sid].hit

\* C25: when the evaluation of a GetEvaluations call needs the users of a
\* segment, the segment cache is read once; if it answers with the users,
\* the feature service is not called and nothing is put; if it answers
\* with any error (no entry, or another error while an entry is there),
\* ListSegmentUsers is called once; when that succeeds its answer is put
\* into the cache once and the call returns evaluations made with these
\* users; when it fails the call returns ErrInternal and no response,
\* nothing is put and the cache is as before.
C25_SegmentUsersReadThrough ==
    NeedsSegmentUsers =>
        \A sid \in ListSegmentIDs(call.loaded, call.req.tag) :
            /\ CountCalls("segmentUsersCache.Get") = 1
            /\ SegmentCached(sid) =>
                  /\ CountCalls("featureClient.ListSegmentUsers") = 0
                  /\ CountCalls("segmentUsersCache.Put") = 0
                  /\ segmentUsersCache = call.before.segmentUsersCache
                  /\ call.err = Nil /\ Answered
            /\ (~SegmentCached(sid) /\ call.o.evaluate = "OK") =>
                  /\ CountCalls("featureClient.ListSegmentUsers") = 1
                  /\ PutArgs("segmentUsersCache.Put") = {<<sid, call.o.segmentUsers>>}
                  /\ CountCalls("segmentUsersCache.Put") = 1
                  /\ segmentUsersCache[sid] = Entry(TRUE, call.o.segmentUsers)
                  /\ call.err = Nil /\ Answered
            /\ (~SegmentCached(sid) /\ call.o.evaluate # "OK") =>
                  /\ CountCalls("featureClient.ListSegmentUsers") = 1
                  /\ CountCalls("segmentUsersCache.Put") = 0
                  /\ segmentUsersCache = call.before.segmentUsersCache
                  /\ call.err = ErrInternal
                  /\ call.resp.nil

\* the cache has the segment but answers with an error; the users are
\* fetched and put
C25_Witness ==
    /\ NeedsSegmentUsers
    /\ call.before.segmentUsersCache["segment-id"].hit
    /\ call.o.segmentGet # "OK"
    /\ call.o.evaluate = "OK"
    /\ CountCalls("featureClient.ListSegmentUsers") = 1
    /\ CountCalls("segmentUsersCache.Put") = 1
    /\ call.err = Nil


\* ------------------------------------------------------------- user event
\* The call just made, had the publish of the user event ended as `outcome`.
WithPublish(outcome) ==
    IF IsGetEvaluations
    THEN GetEvaluations(call.ctx, call.req, call.before.environmentAPIKeyCache,
                        call.before.featuresCache, call.before.segmentUsersCache,
                        [call.o EXCEPT !.publish = outcome])
    ELSE GetEvaluation(call.ctx, call.req, call.before.environmentAPIKeyCache,
                       call.before.featuresCache, call.before.segmentUsersCache,
                       [call.o EXCEPT !.publish = outcome])

\* C30: a GetEvaluations or GetEvaluation call calls the user publisher at
\* most once; an admitted call with a valid body whose publish has
\* happened by the time it returns has called it exactly once, also when
\* the request's id equals the current id; the response and the error of
\* the call are what they would be had the publish succeeded, failed or
\* not happened yet.
C30_UserEventBestEffort ==
    IsEvaluationCall =>
        /\ CountCalls("userPublisher.Publish") <= 1
        /\ (Admitted /\ BodyError = Nil /\ call.o.publish # "Pending") =>
              CountCalls("userPublisher.Publish") = 1
        /\ \A outcome \in PublishOutcomes :
              /\ WithPublish(outcome).resp = call.resp
              /\ WithPublish(outcome).err = call.err

\* the request carries the current id and the publish fails
C30_Witness ==
    /\ Evaluated
    /\ call.req.userEvaluationsId = call.resp.userEvaluationsId
    /\ call.resp.evaluations.nil
    /\ call.o.publish = "Unknown"
    /\ CountCalls("userPublisher.Publish") = 1
    /\ call.err = Nil


\* --------------------------------------------------- settlement, once more
\* C32: no message is settled twice: over batch, send and extractEvents a
\* message gets at most one Ack or Nack call in all (never two Acks, two
\* Nacks, or an Ack and a Nack), and with it at most one increment of the
\* handled counter.
C32_SettledAtMostOnce ==
    \A m \in Mids : Len(settled[m]) <= 1


\* ------------------------------------------------------ unexpected types
StoredKinds == {"EvaluationEvent", "GoalEvent", "UserEvent"}
Unexpected == IF Sent THEN {c \in SR.calls : c.event.kind \notin StoredKinds} ELSE {}
Expected == IF Sent THEN {c \in SR.calls : c.event.kind \in StoredKinds} ELSE {}

\* C40: in a flush an event whose inner type is none of EvaluationEvent,
\* GoalEvent, UserEvent is not handed to the datastore, in no environment's
\* write; its message gets one Ack with the NonRepeatableError counter and
\* nothing else; the other events of the flush are settled as without it:
\* written, and Acked as OK unless the datastore reports a failure for
\* them, then Nacked or Acked by the failure's flag.
C40_UnexpectedTypeDropped ==
    /\ \A c \in Unexpected :
          /\ c.marshal.err = ErrUnexpectedMessageType
          /\ \A wr \in SR.writes : c.id \notin DOMAIN wr.evs /\ c.mid \notin wr.mids
          /\ SR.log[c.from] = <<<<"Ack", NonRepeatableError>>>>
          /\ settled[c.mid] = <<<<"Ack", NonRepeatableError>>>>
    /\ Unexpected # {} =>
          \A c \in Expected :
              /\ IsWritten(c)
              /\ SR.log[c.from] =
                    <<IF c.oracle.ds = "ok" THEN <<"Ack", OK>>
                      ELSE IF c.oracle.ds = "rep" THEN <<"Nack", RepeatableError>>
                      ELSE <<"Ack", NonRepeatableError>>>>

\* a metrics event flushed next to an evaluation event that is written
C40_Witness ==
    /\ \E c \in Unexpected : c.event.kind = "MetricsEvent"
    /\ \E c \in Expected : IsWritten(c) /\ SR.log[c.from] = <<<<"Ack", OK>>>>


\* ------------------------------------------------- ids and environments
\* The message just received found a message of another environment under
\* its id in the batch.
SameIdOtherEnvironment ==
    /\ last.act = "recv"
    /\ last.msg.id \in DOMAIN last.before
    /\ last.msg.data.decode = "ok"
    /\ last.before[last.msg.id].data.decode = "ok"
    /\ last.before[last.msg.id].data.environmentNamespace #
          last.msg.data.environmentNamespace

\* C37: a message that arrives under an id already in the batch, for
\* another environment, does not supersede the stored message: the stored
\* message is not Acked as a duplicate and is still to be written, in the
\* batch or in the flush this receive triggered.
C37_DedupPerEnvironment ==
    SameIdOtherEnvironment =>
        LET prev == last.before[last.msg.id] IN
        /\ <<"Ack", DuplicateID>> \notin Range(settled[prev.mid])
        /\ \/ prev.mid \in Held(last.w)
           \/ Sent /\ prev.mid \in Written


\* ------------------------------------------------ errors of datastore.Write
\* The writes of the flush for which datastore.Write returned an error.
FailedWrites == IF Sent THEN {wr \in SR.writes : wr.err} ELSE {}

\* C35: when datastore.Write returns an error for an environment, no
\* message whose record was in that write is Acked with the counter OK.
C35_WriteErrorNotOK ==
    \A wr \in FailedWrites : \A m \in wr.mids :
        <<"Ack", OK>> \notin Range(settled[m])


\* ------------------------------------------- id attribute and payload id
\* Messages whose id attribute differs from the id inside their payload,
\* next to messages of the platform's publishers.
ForeignContents ==
    Published(Ids, {"e1"}, {EvaluationEvent})
      \cup {<<"a", Data("ok", "e1", "b", EvaluationEvent)>>,
            <<"b", Data("ok", "e1", "a", EvaluationEvent)>>}

RecvForeign(w) == WorkerRecv(w, ForeignContents, FlushSize)

NextForeign ==
    \/ Run
    \/ RunReturn
    \/ StopCancel
    \/ StopReturn
    \/ PullerExit
    \/ \E w \in Workers : RecvForeign(w)
    \/ \E w \in Workers : WorkerTimer(w)
    \/ \E w \in Workers : TimerFire(w)
    \/ \E w \in Workers : WorkerCtxDone(w)
    \/ \E w \in Workers : WorkerChClosed(w)

SpecForeign == InitEnvs /\ [][NextForeign]_vars

\* The event of call c failed repeatably: in marshalling, or in the write.
FailedRepeatably(c) ==
    \/ c.marshal.err # Nil /\ c.marshal.repeatable
    \/ c.marshal.err = Nil /\ c.oracle.ds = "rep"

\* C36: in a flush, the message an event was decoded from is Nacked if and
\* only if that event failed repeatably.
C36_FailureOnOwnMessage ==
    Sent => \A c \in SR.calls :
        (<<"Nack", RepeatableError>> \in Range(SR.log[c.from]))
            <=> FailedRepeatably(c)


\* ------------------------------------------------- Stop during a flush
\* Outcomes of the calls a flush makes under p.ctx when Stop cancels that
\* context while the flush is in progress: a call that returned before the
\* cancellation has its own outcome, a call made or still pending after it
\* fails with the context's error.  datastore.Write runs under a context of
\* its own (send, line 231) and is not affected.
CanceledStor == {"ok", ErrKeyNotFound, ErrContextCanceled}
CanceledRpc == {"ok", ErrContextCanceled}

CanceledOraclesFor(m, pg) ==
    IF m.data.decode # "ok" THEN {Oracle("ok", "ok", "ok", "ok", "ok", "ok")}
    ELSE LET e == m.data.event IN
      {o \in [stor : CanceledStor, rpc : CanceledRpc, stor2 : CanceledStor,
              rpc2 : CanceledRpc, row : {"ok", ErrInternal},
              ds : {"ok", "rep", "nonrep"}] :
         /\ ~ReadsStorage(e) => o.stor = "ok"
         /\ ~CallsRpc(e, o.stor) => o.rpc = "ok"
         /\ ~(pg /\ ReadsStorage(e)) => o.stor2 = "ok"
         /\ ~(pg /\ CallsRpc(e, o.stor2)) => o.rpc2 = "ok"
         /\ ~(pg /\ Marshals(e, o.stor2, o.rpc2)) => o.row = "ok"
         /\ ~Marshals(e, o.stor, o.rpc) => o.ds = "ok"}

RECURSIVE CanceledOracleMaps(_, _, _)
CanceledOracleMaps(messages, keys, pg) ==
    IF keys = <<>> THEN {EmptyMap}
    ELSE {Put(f, Head(keys), o) :
            f \in CanceledOracleMaps(messages, Tail(keys), pg),
            o \in CanceledOraclesFor(messages[Head(keys)], pg)}

CanceledSendInputs(messages, pg) ==
    MessageOrders(messages) \X EnvOrders(messages)
      \X CanceledOracleMaps(messages, SetToSeq(DOMAIN messages), pg)
      \X [DecodedEnvs(messages) -> BOOLEAN]

\* batch(), `case <-timer.C`.  With `stop`, another goroutine calls Stop
\* while p.send is running: p.cancel() takes effect during the flush.
WorkerTimerStop(w, stop) ==
    /\ wPc[w] = "loop"
    /\ timerC[w]
    /\ stop => stopPc = "idle" /\ Cardinality(DOMAIN batch[w]) > 0
    /\ timerC' = [timerC EXCEPT ![w] = FALSE]
    /\ stopPc' = IF stop THEN "waiting" ELSE stopPc
    /\ ctxDone' = (ctxDone \/ stop)
    /\ IF Cardinality(DOMAIN batch[w]) > 0
       THEN \E in \in IF stop THEN CanceledSendInputs(batch[w], postgresClient)
                              ELSE SendInputs(batch[w], postgresClient) :
            LET sr == SendWith(batch[w], postgresClient, in) IN
            /\ settled' = Settle(settled, sr)
            /\ batch' = [batch EXCEPT ![w] = EmptyMap]
            /\ last' = Step(IF stop THEN "timerStop" ELSE "timer", w, NoMessage,
                            batch[w], TRUE, sr)
       ELSE /\ last' = Step("timer", w, NoMessage, batch[w], FALSE, NoSend)
            /\ UNCHANGED <<settled, batch>>
    /\ UNCHANGED <<apiVars, replacedBy, postgresClient, doneCh, runPc, pullerPc,
                   chClosed, wPc, nextMid>>

\* A goal event that needs enrichment or an event of a type the persister
\* does not store under id "a", evaluation events under the other ids.
StopContents ==
    Published({"a"}, {"e1"}, {GoalEvent(GOAL_BATCH, "t", <<>>), MetricsEvent})
      \cup Published(Ids \ {"a"}, {"e1"}, {EvaluationEvent})

RecvStop(w) == WorkerRecv(w, StopContents, FlushSize)

NextStop ==
    \/ Run
    \/ RunReturn
    \/ StopCancel
    \/ StopReturn
    \/ PullerExit
    \/ \E w \in Workers : RecvStop(w)
    \/ \E w \in Workers : WorkerTimerStop(w, FALSE)
    \/ \E w \in Workers : WorkerTimerStop(w, TRUE)
    \/ \E w \in Workers : TimerFire(w)
    \/ \E w \in Workers : WorkerCtxDone(w)
    \/ \E w \in Workers : WorkerChClosed(w)

SpecStop == InitEnvs /\ [][NextStop]_vars

\* The message of call c was Acked although no record of its event went
\* to the datastore.
AckedUnwritten(c) ==
    /\ \E s \in Range(SR.log[c.from]) : s[1] = "Ack"
    /\ ~IsWritten(c)

\* C34: in a flush during which Stop cancels the root context, a decoded
\* event is Acked without having been written only when it is malformed
\* (of a type the persister does not store); a failure caused by the
\* cancelled context is Nacked.
C34_StopNeverDrops ==
    (Sent /\ last.act = "timerStop") =>
        \A c \in SR.calls :
            /\ AckedUnwritten(c) => c.marshal.err = ErrUnexpectedMessageType
            /\ c.marshal.err = ErrContextCanceled =>
                   SR.log[c.from] = <<<<"Nack", RepeatableError>>>>


\* ------------------------------------------------------------- liveness
\* The persister under the scheduling its runtime provides: a timer that
\* was created or reset fires after flushInterval; a select with a ready
\* case does not block; errgroup's Wait returns once its goroutines did;
\* a receive from a closed channel returns.  Calling Run, calling Stop and
\* the arrival of messages are left to the environment.
LiveContents ==
    Published({"a"}, {"e1"}, {EvaluationEvent})
      \cup Published(Ids \ {"a"}, {"e1"}, {MetricsEvent})
      \cup {<<"a", BadOuter>>}

\* fewer messages than fill a batch: only the timer can flush them
RecvLive(w) == WorkerRecv(w, LiveContents, FlushSize - 1)

NextLive ==
    \/ Run
    \/ RunReturn
    \/ StopCancel
    \/ StopReturn
    \/ PullerExit
    \/ \E w \in Workers : RecvLive(w)
    \/ \E w \in Workers : WorkerTimer(w)
    \/ \E w \in Workers : TimerFire(w)
    \/ \E w \in Workers : WorkerCtxDone(w)
    \/ \E w \in Workers : WorkerChClosed(w)

Scheduling ==
    /\ WF_vars(RunReturn)
    /\ WF_vars(StopReturn)
    /\ WF_vars(PullerExit)
    /\ \A w \in Workers : WF_vars(TimerFire(w))
    /\ \A w \in Workers : WF_vars(WorkerTimer(w))
    /\ \A w \in Workers : WF_vars(WorkerCtxDone(w))
    /\ \A w \in Workers : WF_vars(WorkerChClosed(w))

SpecLive == InitEnvs /\ [][NextLive]_vars /\ Scheduling

C39_StopReturns == (stopPc = "waiting") ~> (stopPc = "returned")

\* Stop returns when Run was called, before or after it.
StopReturnsAfterRun ==
    (stopPc = "waiting" /\ runPc # "idle") ~> (stopPc = "returned")


\* =========================================================== notification
\* The subscription mutations of NotificationService
\* (pkg/notification/api/subscription.go).  A call is one action: role
\* check, validation, the MySQL transaction and the publication of the
\* handler's domain events.  `subscriptions` are the stored rows of one
\* environment, `mutation` describes the call just made.

\* ----------------------------------------------------------- error kinds
statusInternal == "statusInternal"
statusAlreadyExists == "statusAlreadyExists"
statusNotFound == "statusNotFound"
statusNoCommand == "statusNoCommand"
statusIDRequired == "statusIDRequired"
statusNameRequired == "statusNameRequired"
statusSourceTypesRequired == "statusSourceTypesRequired"
statusRecipientRequired == "statusRecipientRequired"
statusUnknownRecipient == "statusUnknownRecipient"
statusSlackRecipientRequired == "statusSlackRecipientRequired"
statusSlackRecipientWebhookURLRequired == "statusSlackRecipientWebhookURLRequired"
ErrPermissionDenied == "ErrPermissionDenied"
ErrSubscriptionAlreadyExists == "ErrSubscriptionAlreadyExists"
ErrSubscriptionNotFound == "ErrSubscriptionNotFound"
ErrSubscriptionUnexpectedAffectedRows == "ErrSubscriptionUnexpectedAffectedRows"

\* ---------------------------------------------------------------- requests
\* A nil pointer is `present |-> FALSE`.
Recipient(present, type, slack, webhookUrl) ==
    [present |-> present, type |-> type, slack |-> slack, webhookUrl |-> webhookUrl]

Recipients ==
    {Recipient(FALSE, "", FALSE, ""),
     Recipient(TRUE, "Other", FALSE, ""),
     Recipient(TRUE, "SlackChannel", FALSE, ""),
     Recipient(TRUE, "SlackChannel", TRUE, ""),
     Recipient(TRUE, "SlackChannel", TRUE, "w1")}

CreateSubscriptionCommands ==
    [present : {TRUE}, name : {"", "n1"}, sourceTypes : {{}, {"t1"}},
     recipient : Recipients]
      \cup {[present |-> FALSE, name |-> "", sourceTypes |-> {},
             recipient |-> Recipient(FALSE, "", FALSE, "")]}

CreateSubscriptionRequests == [command : CreateSubscriptionCommands]

SourceTypesCommands ==
    {[present |-> FALSE, sourceTypes |-> {}],
     [present |-> TRUE, sourceTypes |-> {}],
     [present |-> TRUE, sourceTypes |-> {"t2"}]}

RenameCommands ==
    {[present |-> FALSE, name |-> ""], [present |-> TRUE, name |-> ""],
     [present |-> TRUE, name |-> "n2"]}

RequestIds == SubscriptionIds \cup {""}

UpdateSubscriptionRequests ==
    [id : RequestIds, addSourceTypesCommand : SourceTypesCommands,
     deleteSourceTypesCommand : SourceTypesCommands,
     renameSubscriptionCommand : RenameCommands]

\* Enable-, Disable- and DeleteSubscriptionRequest: an id and a command
CommandRequests == [id : RequestIds, command : BOOLEAN]

\* ------------------------------------------------------------- validation
validateSlackRecipient(sr) ==
    IF ~sr.slack THEN statusSlackRecipientRequired
    ELSE IF sr.webhookUrl = "" THEN statusSlackRecipientWebhookURLRequired
    ELSE Nil

validateRecipient(recipient) ==
    IF ~recipient.present THEN statusRecipientRequired
    ELSE IF recipient.type = "SlackChannel" THEN validateSlackRecipient(recipient)
    ELSE statusUnknownRecipient

validateCreateSubscriptionRequest(req) ==
    IF ~req.command.present THEN statusNoCommand
    ELSE IF req.command.name = "" THEN statusNameRequired
    ELSE IF req.command.sourceTypes = {} THEN statusSourceTypesRequired
    ELSE validateRecipient(req.command.recipient)

isNoUpdateSubscriptionCommand(req) ==
    /\ ~req.addSourceTypesCommand.present
    /\ ~req.deleteSourceTypesCommand.present
    /\ ~req.renameSubscriptionCommand.present

validateUpdateSubscriptionRequest(req) ==
    IF req.id = "" THEN statusIDRequired
    ELSE IF isNoUpdateSubscriptionCommand(req) THEN statusNoCommand
    ELSE IF req.addSourceTypesCommand.present
            /\ req.addSourceTypesCommand.sourceTypes = {}
    THEN statusSourceTypesRequired
    ELSE IF req.deleteSourceTypesCommand.present
            /\ req.deleteSourceTypesCommand.sourceTypes = {}
    THEN statusSourceTypesRequired
    ELSE IF req.renameSubscriptionCommand.present
            /\ req.renameSubscriptionCommand.name = ""
    THEN statusNameRequired
    ELSE Nil

\* validateEnableSubscriptionRequest, validateDisableSubscriptionRequest,
\* validateDeleteSubscriptionRequest
validateCommandRequest(req) ==
    IF req.id = "" THEN statusIDRequired
    ELSE IF ~req.command THEN statusNoCommand
    ELSE Nil

\* --------------------------------------------------------------- commands
Command(type, name, sourceTypes) ==
    [type |-> type, name |-> name, sourceTypes |-> sourceTypes]

createUpdateSubscriptionCommands(req) ==
    (IF req.addSourceTypesCommand.present
     THEN <<Command("AddSourceTypes", "", req.addSourceTypesCommand.sourceTypes)>>
     ELSE <<>>)
    \o (IF req.deleteSourceTypesCommand.present
        THEN <<Command("DeleteSourceTypes", "", req.deleteSourceTypesCommand.sourceTypes)>>
        ELSE <<>>)
    \o (IF req.renameSubscriptionCommand.present
        THEN <<Command("Rename", req.renameSubscriptionCommand.name, {})>>
        ELSE <<>>)

\* command.Handler.Handle: the command's change of the subscription
Handle(subscription, cmd) ==
    CASE cmd.type = "AddSourceTypes" ->
           [subscription EXCEPT !.sourceTypes = @ \cup cmd.sourceTypes]
      [] cmd.type = "DeleteSourceTypes" ->
           [subscription EXCEPT !.sourceTypes = @ \ cmd.sourceTypes]
      [] cmd.type = "Rename" -> [subscription EXCEPT !.name = cmd.name]
      [] cmd.type = "Enable" -> [subscription EXCEPT !.disabled = FALSE]
      [] cmd.type = "Disable" -> [subscription EXCEPT !.disabled = TRUE]
      [] OTHER -> subscription

RECURSIVE HandleAll(_, _)
HandleAll(subscription, commands) ==
    IF commands = <<>> THEN subscription
    ELSE HandleAll(Handle(subscription, Head(commands)), Tail(commands))

\* command.Handler.Events: one domain event per command handled
Events(commands) == [i \in DOMAIN commands |-> commands[i].type]

\* ------------------------------------------------------------ the handlers
\* Outcomes of the collaborators of one call:
\*   role     checkRole
\*   newId    the id domain.NewSubscription gives, "" when it fails
\*   begin    mysqlClient.BeginTx succeeds
\*   tx       a failure of a statement or of the commit, or "ok"
\*   publish  publishDomainEvents returns no error
\* A step that is not reached has no outcome of its own.
MutationOracles(newIds) ==
    {o \in [role : {"ok", ErrPermissionDenied}, newId : newIds, begin : BOOLEAN,
            tx : {"ok", ErrInternal, ErrSubscriptionUnexpectedAffectedRows},
            publish : BOOLEAN] :
       /\ o.role # "ok" => o.newId # "" /\ o.begin /\ o.tx = "ok" /\ o.publish
       /\ o.newId = "" => o.begin /\ o.tx = "ok" /\ o.publish
       /\ ~o.begin => o.tx = "ok" /\ o.publish
       /\ o.tx # "ok" => o.publish}

CreateSteps == <<"checkRole", "validate", "NewSubscription", "BeginTx",
                 "RunInTransaction", "publishDomainEvents">>
UpdateSteps == <<"BeginTx", "RunInTransaction", "publishDomainEvents">>

\* What a call did: its error (Nil for a response), the steps it reached,
\* the error of the transaction, the rows it leaves and the events it
\* handed to publishDomainEvents.
Outcome(err, trace, txErr, rows, events) ==
    [err |-> err, trace |-> trace, txErr |-> txErr, subscriptions |-> rows,
     events |-> events]

\* Every error of the transaction is reported as Internal.
createErrorInternal(err) == statusInternal

\* CreateSubscription, lines 82-93
createError(err) ==
    IF err = ErrSubscriptionAlreadyExists THEN statusAlreadyExists
    ELSE statusInternal

\* updateSubscription lines 296-308, DeleteSubscription lines 387-399
updateError(err) ==
    IF err = ErrSubscriptionNotFound \/ err = ErrSubscriptionUnexpectedAffectedRows
    THEN statusNotFound
    ELSE statusInternal

\* The transaction was committed before publishDomainEvents is called.
afterPublishError(before, after) == after

\* RunInTransaction of CreateSubscription (lines 71-81): the insert, then
\* the handler.  The rows change only when the function and the commit
\* succeed.
createTransaction(rows, id, command, o) ==
    IF o.tx # "ok" THEN [err |-> o.tx, rows |-> rows, events |-> <<>>]
    ELSE IF rows[id].exists
    THEN [err |-> ErrSubscriptionAlreadyExists, rows |-> rows, events |-> <<>>]
    ELSE [err |-> Nil,
          rows |-> [rows EXCEPT ![id] =
                      [name |-> command.name, sourceTypes |-> command.sourceTypes,
                       disabled |-> FALSE, exists |-> TRUE]],
          events |-> <<"Create">>]

\* RunInTransaction of updateSubscription (lines 279-295): GetSubscription,
\* the commands, UpdateSubscription.
updateTransaction(rows, id, commands, o) ==
    IF ~rows[id].exists
    THEN [err |-> ErrSubscriptionNotFound, rows |-> rows, events |-> <<>>]
    ELSE IF o.tx # "ok" THEN [err |-> o.tx, rows |-> rows, events |-> <<>>]
    ELSE [err |-> Nil,
          rows |-> [rows EXCEPT ![id] = HandleAll(@, commands)],
          events |-> Events(commands)]

\* RunInTransaction of DeleteSubscription (lines 372-386)
deleteTransaction(rows, id, o) ==
    IF ~rows[id].exists
    THEN [err |-> ErrSubscriptionNotFound, rows |-> rows, events |-> <<>>]
    ELSE IF o.tx # "ok" THEN [err |-> o.tx, rows |-> rows, events |-> <<>>]
    ELSE [err |-> Nil, rows |-> [rows EXCEPT ![id] = NoSubscription],
          events |-> <<"Delete">>]

\* NotificationService.CreateSubscription
CreateSubscription(req, o, rows) ==
    IF o.role # "ok" THEN Outcome(o.role, SubSeq(CreateSteps, 1, 1), Nil, rows, <<>>)
    ELSE IF validateCreateSubscriptionRequest(req) # Nil
    THEN Outcome(validateCreateSubscriptionRequest(req), SubSeq(CreateSteps, 1, 2),
                 Nil, rows, <<>>)
    ELSE IF o.newId = ""
    THEN Outcome(statusInternal, SubSeq(CreateSteps, 1, 3), Nil, rows, <<>>)
    ELSE IF ~o.begin
    THEN Outcome(statusInternal, SubSeq(CreateSteps, 1, 4), Nil, rows, <<>>)
    ELSE LET t == createTransaction(rows, o.newId, req.command, o) IN
         IF t.err # Nil
         THEN Outcome(createError(t.err), SubSeq(CreateSteps, 1, 5), t.err, rows, <<>>)
         ELSE IF ~o.publish
         THEN Outcome(statusInternal, CreateSteps, Nil,
                      afterPublishError(rows, t.rows), t.events)
         ELSE Outcome(Nil, CreateSteps, Nil, t.rows, t.events)

\* NotificationService.updateSubscription
updateSubscription(commands, id, o, rows) ==
    IF ~o.begin
    THEN Outcome(statusInternal, SubSeq(UpdateSteps, 1, 1), Nil, rows, <<>>)
    ELSE LET t == updateTransaction(rows, id, commands, o) IN
         IF t.err # Nil
         THEN Outcome(updateError(t.err), SubSeq(UpdateSteps, 1, 2), t.err, rows, <<>>)
         ELSE IF ~o.publish
         THEN Outcome(statusInternal, UpdateSteps, Nil,
                      afterPublishError(rows, t.rows), t.events)
         ELSE Outcome(Nil, UpdateSteps, Nil, t.rows, t.events)

\* The part Update-, Enable- and DisableSubscription share: role check,
\* validation (its error is `invalid`), updateSubscription.
updateWith(invalid, commands, id, o, rows) ==
    IF o.role # "ok" THEN Outcome(o.role, <<"checkRole">>, Nil, rows, <<>>)
    ELSE IF invalid # Nil
    THEN Outcome(invalid, <<"checkRole", "validate">>, Nil, rows, <<>>)
    ELSE LET r == updateSubscription(commands, id, o, rows) IN
         [r EXCEPT !.trace = <<"checkRole", "validate">> \o @]

\* NotificationService.UpdateSubscription
UpdateSubscription(req, o, rows) ==
    updateWith(validateUpdateSubscriptionRequest(req),
               createUpdateSubscriptionCommands(req), req.id, o, rows)

\* NotificationService.EnableSubscription
EnableSubscription(req, o, rows) ==
    updateWith(validateCommandRequest(req), <<Command("Enable", "", {})>>,
               req.id, o, rows)

\* NotificationService.DisableSubscription
DisableSubscription(req, o, rows) ==
    updateWith(validateCommandRequest(req), <<Command("Disable", "", {})>>,
               req.id, o, rows)

\* NotificationService.DeleteSubscription
DeleteSubscription(req, o, rows) ==
    IF o.role # "ok" THEN Outcome(o.role, <<"checkRole">>, Nil, rows, <<>>)
    ELSE IF validateCommandRequest(req) # Nil
    THEN Outcome(validateCommandRequest(req), <<"checkRole", "validate">>, Nil, rows, <<>>)
    ELSE IF ~o.begin
    THEN Outcome(statusInternal, <<"checkRole", "validate", "BeginTx">>, Nil, rows, <<>>)
    ELSE LET t == deleteTransaction(rows, req.id, o) IN
         IF t.err # Nil
         THEN Outcome(updateError(t.err),
                      <<"checkRole", "validate", "BeginTx", "RunInTransaction">>,
                      t.err, rows, <<>>)
         ELSE IF ~o.publish
         THEN Outcome(statusInternal, <<"checkRole", "validate">> \o UpdateSteps, Nil,
                      afterPublishError(rows, t.rows), t.events)
         ELSE Outcome(Nil, <<"checkRole", "validate">> \o UpdateSteps, Nil,
                      t.rows, t.events)

\* ------------------------------------------------------------ the calls
Mutation(method, req, o, r) ==
    [method |-> method, req |-> req, oracle |-> o, before |-> subscriptions,
     err |-> r.err, trace |-> r.trace, txErr |-> r.txErr, events |-> r.events]

Mutate(method, req, o, r) ==
    /\ subscriptions' = r.subscriptions
    /\ mutation' = Mutation(method, req, o, r)
    /\ UNCHANGED <<persisterVars, gatewayVars>>

CallCreateSubscription ==
    \E req \in CreateSubscriptionRequests, o \in MutationOracles(RequestIds) :
        Mutate("CreateSubscription", req, o, CreateSubscription(req, o, subscriptions))

CallUpdateSubscription ==
    \E req \in UpdateSubscriptionRequests, o \in MutationOracles(SubscriptionIds) :
        Mutate("UpdateSubscription", req, o, UpdateSubscription(req, o, subscriptions))

CallEnableSubscription ==
    \E req \in CommandRequests, o \in MutationOracles(SubscriptionIds) :
        Mutate("EnableSubscription", req, o, EnableSubscription(req, o, subscriptions))

CallDisableSubscription ==
    \E req \in CommandRequests, o \in MutationOracles(SubscriptionIds) :
        Mutate("DisableSubscription", req, o, DisableSubscription(req, o, subscriptions))

CallDeleteSubscription ==
    \E req \in CommandRequests, o \in MutationOracles(SubscriptionIds) :
        Mutate("DeleteSubscription", req, o, DeleteSubscription(req, o, subscriptions))

NextSubscriptions ==
    \/ CallCreateSubscription
    \/ CallUpdateSubscription
    \/ CallEnableSubscription
    \/ CallDisableSubscription
    \/ CallDeleteSubscription

SpecSubscriptions == InitGateway /\ [][NextSubscriptions]_vars


\* ------------------------------------------- claims on the subscriptions
Mutated == mutation.method # "none"
IsCreate == mutation.method = "CreateSubscription"

\* the steps of a complete call, in the order of the handler
StepsOf(method) ==
    IF method = "CreateSubscription" THEN CreateSteps
    ELSE <<"checkRole", "validate">> \o UpdateSteps

\* the error the request's validation gives, Nil for a valid request
Invalid ==
    CASE mutation.method = "CreateSubscription" ->
           validateCreateSubscriptionRequest(mutation.req)
      [] mutation.method = "UpdateSubscription" ->
           validateUpdateSubscriptionRequest(mutation.req)
      [] OTHER -> validateCommandRequest(mutation.req)

Reached(step) == step \in Range(mutation.trace)

\* C31: a subscription mutation runs role check, validation, transaction
\* and publication in this order; a request that fails the role check or
\* the validation starts no transaction; when the transaction returns an
\* error nothing is published and the error is AlreadyExists (create, for
\* ErrSubscriptionAlreadyExists), NotFound (update and delete, for
\* ErrSubscriptionNotFound and ErrSubscriptionUnexpectedAffectedRows) or
\* Internal.
C31_OrderAndErrors ==
    Mutated =>
        /\ \E k \in 1..Len(StepsOf(mutation.method)) :
               mutation.trace = SubSeq(StepsOf(mutation.method), 1, k)
        /\ mutation.oracle.role # "ok" =>
               ~Reached("validate") /\ mutation.err = mutation.oracle.role
        /\ (mutation.oracle.role = "ok" /\ Invalid # Nil) =>
               ~Reached("BeginTx") /\ mutation.err = Invalid
        /\ ~Reached("BeginTx") => subscriptions = mutation.before
        /\ mutation.txErr # Nil =>
               /\ ~Reached("publishDomainEvents")
               /\ mutation.events = <<>>
               /\ mutation.err =
                    IF IsCreate
                    THEN IF mutation.txErr = ErrSubscriptionAlreadyExists
                         THEN statusAlreadyExists ELSE statusInternal
                    ELSE IF mutation.txErr \in {ErrSubscriptionNotFound,
                                                ErrSubscriptionUnexpectedAffectedRows}
                         THEN statusNotFound ELSE statusInternal

\* A create for an id that is already stored: the transaction fails.
C31_Witness ==
    /\ Mutated
    /\ IsCreate
    /\ mutation.txErr = ErrSubscriptionAlreadyExists
    /\ mutation.err = statusAlreadyExists
    /\ mutation.before[mutation.oracle.newId].exists

\* C38: a subscription mutation that returns an error leaves the stored
\* subscriptions as they were.
C38_ErrorLeavesRowsUnchanged ==
    (Mutated /\ mutation.err # Nil) => subscriptions = mutation.before

====
